---- MODULE Spec2Model ----
(***************************************************************************)
(* The session-pattern aggregation and insight generation of the          *)
(* OpenReplay MCP server: SessionAnalyzer.analyze_session_patterns and     *)
(* SessionAnalyzer.generate_insights (openreplay_mcp_server.py and         *)
(* openreplay_mcp_working.py) and AdvancedSessionAnalyzer                  *)
(* (openreplay_session_analyzer_v2.py).                                    *)
(*                                                                         *)
(* A session record is a function from the field names it carries to      *)
(* their values; a missing field is a name outside its DOMAIN.  A Python   *)
(* dict used as a frequency table is an insertion-ordered sequence of      *)
(* [key, n] entries.  A Python float that is a quotient of integers is an  *)
(* exact fraction [num, den] in lowest terms.                              *)
(***************************************************************************)
EXTENDS Integers, Sequences, FiniteSets, TLC

VARIABLES
    sessions,    \* the input list handed to analyze_session_patterns
    utcOffset,   \* hours the process's local time zone is ahead of UTC
    variant,     \* which copy of the analyzer the caller uses
    pc,          \* where the caller is: "idle", "analyzed", "done"
    run,         \* 1 for the first invocation on the list, 2 for the second
    patterns,    \* the last value returned by analyze_session_patterns
    insights,    \* the last value returned by generate_insights
    first,       \* what the first invocation returned, kept by the caller
    tool,        \* the MCP tool function being called, "none" outside a call
    tpc,         \* where the tool call is: "idle", "try", "returned", "raised"
    fetched,     \* how many of the call's client requests have returned
    raised,      \* the exception raised inside the tool's try block, if any
    returned,    \* the string the tool returned, as a sequence of words
    args,        \* the arguments of the tool call that decide its branch
    calls,       \* the client methods the tool call has awaited, in order
    handle,      \* OpenReplayClient._client: 0 for None, else an instance
    http,        \* the httpx.AsyncClient instances made, "open" or "closed"
    events,      \* the event list handed to detect_problem_patterns
    problems     \* the last value returned by detect_problem_patterns

analysisVars == <<sessions, utcOffset, variant, pc, run, patterns, insights, first>>

toolVars == <<tool, tpc, fetched, raised, returned, args, calls, handle, http>>

detectVars == <<events, problems>>

vars == <<analysisVars, toolVars, detectVars>>

-----------------------------------------------------------------------------
(* Python dicts and dict.get *)

EmptyDict == [k \in {} |-> 0]

Get(d, k, default) == IF k \in DOMAIN d THEN d[k] ELSE default

-----------------------------------------------------------------------------
(* Insertion-ordered frequency tables: d[k] = d.get(k, 0) + 1 *)

EmptyTable == <<>>

Keys(t) == {t[i].key : i \in 1..Len(t)}

TableGet(t, k, default) ==
    IF \E i \in 1..Len(t) : t[i].key = k
    THEN t[CHOOSE i \in 1..Len(t) : t[i].key = k].n
    ELSE default

(* A count that starts over at 1 each time its key is seen: d[k] = 1. *)
IncrOverwrite(t, k) ==
    IF \E i \in 1..Len(t) : t[i].key = k
    THEN [i \in 1..Len(t) |-> IF t[i].key = k
                              THEN [key |-> k, n |-> 1]
                              ELSE t[i]]
    ELSE Append(t, [key |-> k, n |-> 1])

Incr(t, k) ==
    IF \E i \in 1..Len(t) : t[i].key = k
    THEN [i \in 1..Len(t) |-> IF t[i].key = k
                              THEN [key |-> k, n |-> t[i].n + 1]
                              ELSE t[i]]
    ELSE Append(t, [key |-> k, n |-> 1])

RECURSIVE SumValues(_)
SumValues(t) == IF t = <<>> THEN 0 ELSE Head(t).n + SumValues(Tail(t))

(* max(d, key=d.get): the first key, in insertion order, with the largest *)
(* count.                                                                  *)
MaxKey(t) ==
    LET best == CHOOSE i \in 1..Len(t) :
                    /\ \A j \in 1..Len(t) : t[j].n <= t[i].n
                    /\ \A j \in 1..(i - 1) : t[j].n < t[i].n
    IN  t[best].key

(* sorted(items, key=lambda x: x[1], reverse=True): a stable sort, so     *)
(* entries of equal count keep their order.                                *)
(* A descending sort that puts an entry ahead of the equal ones before it. *)
InsertDescUnstable(sorted, x) ==
    LET after == {p \in 1..Len(sorted) : sorted[p].n <= x.n}
        pos   == IF after = {} THEN Len(sorted) + 1
                 ELSE CHOOSE p \in after : \A q \in after : p <= q
    IN  SubSeq(sorted, 1, pos - 1) \o <<x>> \o SubSeq(sorted, pos, Len(sorted))

InsertDesc(sorted, x) ==
    LET after == {p \in 1..Len(sorted) : sorted[p].n < x.n}
        pos   == IF after = {} THEN Len(sorted) + 1
                 ELSE CHOOSE p \in after : \A q \in after : p <= q
    IN  SubSeq(sorted, 1, pos - 1) \o <<x>> \o SubSeq(sorted, pos, Len(sorted))

RECURSIVE SortedDesc(_)
SortedDesc(items) ==
    IF items = <<>> THEN <<>>
    ELSE InsertDesc(SortedDesc(SubSeq(items, 1, Len(items) - 1)),
                    items[Len(items)])

Take(s, k) == SubSeq(s, 1, IF Len(s) < k THEN Len(s) ELSE k)

-----------------------------------------------------------------------------
(* Quotients of integers *)

RECURSIVE Gcd(_, _)
Gcd(a, b) == IF b = 0 THEN a ELSE Gcd(b, a % b)

Abs(a) == IF a < 0 THEN -a ELSE a

Rat(a, b) ==
    LET g == Gcd(Abs(a), b)
    IN  [num |-> a \div g, den |-> b \div g]

Zero == [num |-> 0, den |-> 1]

RatLess(p, q) == p.num * q.den < q.num * p.den

RatOfInt(k) == [num |-> k, den |-> 1]

(* f"{x:.1f}": x in tenths.  The digit is exact whenever x is not halfway
   between two tenths.  A halfway x with denominator 4 (6.25, 18.75) is an
   exact float and Python rounds it half to even, as here.  A halfway x with
   denominator 20 (0.15) is not an exact float and its digit follows the
   float's own error; the durations and list lengths of the inputs below
   never produce one. *)
Fmt1(q) ==
    LET t  == 10 * q.num
        fl == t \div q.den
        r2 == 2 * (t - fl * q.den)
    IN  IF r2 > q.den \/ (r2 = q.den /\ fl % 2 = 1) THEN fl + 1 ELSE fl

-----------------------------------------------------------------------------
(* SessionAnalyzer.analyze_session_patterns, openreplay_mcp_server.py *)

NoSessions == [error |-> "No sessions to analyze"]

(* datetime.fromtimestamp(ts / 1000).hour for ts >= 0 *)
HourOf(ts) == (((ts \div 1000) \div 3600) + utcOffset) % 24

(* Counters whose browser table outlives the call, as a table shared by   *)
(* all calls would: it starts as the one the last summary holds.           *)
InitCountersShared ==
    [total_duration       |-> 0,
     total_pages          |-> 0,
     total_events         |-> 0,
     sessions_with_errors |-> 0,
     browsers             |-> IF "technical_metrics" \in DOMAIN patterns
                              THEN patterns.technical_metrics.browsers
                              ELSE EmptyTable,
     devices              |-> EmptyTable,
     countries            |-> EmptyTable,
     platforms            |-> EmptyTable,
     issue_types          |-> EmptyTable,
     hourly_distribution  |-> [h \in 1..24 |-> 0]]

(* The locals of one call before its loop. *)
InitCounters ==
    [total_duration       |-> 0,
     total_pages          |-> 0,
     total_events         |-> 0,
     sessions_with_errors |-> 0,
     browsers             |-> EmptyTable,
     devices              |-> EmptyTable,
     countries            |-> EmptyTable,
     platforms            |-> EmptyTable,
     issue_types          |-> EmptyTable,
     hourly_distribution  |-> [h \in 1..24 |-> 0]]

RECURSIVE CountIssues(_, _)
CountIssues(t, issues) ==
    IF issues = <<>> THEN t
    ELSE CountIssues(Incr(t, Head(issues)), Tail(issues))

(* A device class that defaults like the browser and the country do. *)
DeviceOfUnknown(session) == Get(session, "userDevice", "Unknown")

(* session.get('userDevice', 'Desktop') or 'Desktop' *)
DeviceOf(session) ==
    LET d == Get(session, "userDevice", "Desktop")
    IN  IF d = "" THEN "Desktop" ELSE d

(* A test for the key alone: 'startTs' in session. *)
HasStartTsKey(session) == "startTs" \in DOMAIN session

(* if session.get('startTs'): the key is there and its value is not 0 *)
HasStartTs(session) == "startTs" \in DOMAIN session /\ session["startTs"] # 0

(* One iteration of the loop over the sessions. *)
LoopBody(c, session) ==
    [total_duration       |-> c.total_duration + Get(session, "duration", 0),
     total_pages          |-> c.total_pages + Get(session, "pagesCount", 0),
     total_events         |-> c.total_events + Get(session, "eventsCount", 0),
     sessions_with_errors |-> IF Get(session, "errorsCount", 0) > 0
                              THEN c.sessions_with_errors + 1
                              ELSE c.sessions_with_errors,
     browsers             |-> Incr(c.browsers, Get(session, "userBrowser", "Unknown")),
     devices              |-> Incr(c.devices, DeviceOf(session)),
     countries            |-> Incr(c.countries, Get(session, "userCountry", "Unknown")),
     platforms            |-> Incr(c.platforms, Get(session, "platform", "web")),
     issue_types          |-> CountIssues(c.issue_types, Get(session, "issueTypes", <<>>)),
     hourly_distribution  |->
         IF HasStartTs(session)
         THEN [c.hourly_distribution
                  EXCEPT ![HourOf(session["startTs"]) + 1] = @ + 1]
         ELSE c.hourly_distribution]

RECURSIVE Loop(_, _)
Loop(c, ss) == IF ss = <<>> THEN c ELSE Loop(LoopBody(c, Head(ss)), Tail(ss))

RECURSIVE CountIf(_, _)
CountIf(P(_), ss) ==
    IF ss = <<>> THEN 0
    ELSE (IF P(Head(ss)) THEN 1 ELSE 0) + CountIf(P, Tail(ss))

(* s.get('userId', s.get('userUuid', '')) *)
UserOf(session) == Get(session, "userId", Get(session, "userUuid", ""))

Min2(a, b) == IF a < b THEN a ELSE b
Max2(a, b) == IF a > b THEN a ELSE b

(* min(s.get('startTs', float('inf')) ...): finite is FALSE for inf. *)
RECURSIVE MinStartTs(_)
MinStartTs(ss) ==
    IF ss = <<>> THEN [finite |-> FALSE, value |-> 0]
    ELSE LET rest == MinStartTs(Tail(ss))
             s    == Head(ss)
         IN  IF "startTs" \notin DOMAIN s THEN rest
             ELSE IF rest.finite
                  THEN [finite |-> TRUE, value |-> Min2(s["startTs"], rest.value)]
                  ELSE [finite |-> TRUE, value |-> s["startTs"]]

RECURSIVE MaxStartTs(_)
MaxStartTs(ss) ==
    IF Len(ss) = 1 THEN Get(ss[1], "startTs", 0)
    ELSE Max2(Get(Head(ss), "startTs", 0), MaxStartTs(Tail(ss)))

(* enumerate(hourly_distribution) *)
Enumerate(h) == [i \in 1..Len(h) |-> [key |-> i - 1, n |-> h[i]]]

(* v > num_sessions * 0.1, which for integers v and n is 10 v > n *)
IsCritical(v, n) == 10 * v > n

(* A bounce test that takes a session without a page count for a        *)
(* two-page session.                                                      *)
IsBounceMissingPages(s) == Get(s, "pagesCount", 2) <= 1

(* A bounce test that misses the single-page sessions. *)
IsBounceStrict(s) == Get(s, "pagesCount", 0) < 1

(* s.get('pagesCount', 0) <= 1 *)
IsBounce(s) == Get(s, "pagesCount", 0) <= 1

(* A mobile share taken over the device classes, not over the sessions. *)
MobilePercentageOfClasses(devices, num_sessions) ==
    Rat(TableGet(devices, "Mobile", 0) * 100, Len(devices))

(* devices.get('Mobile', 0) / num_sessions * 100 *)
MobilePercentage(devices, num_sessions) ==
    Rat(TableGet(devices, "Mobile", 0) * 100, num_sessions)

(* The summary assembled after the loop. *)
Summary(c, ss) ==
    LET num_sessions == Len(ss)
    IN  [total_sessions |-> Len(ss),
         user_metrics |->
            [unique_users            |-> Cardinality({UserOf(ss[i]) : i \in 1..Len(ss)}),
             \* patterns['user_metrics'] is still the empty dict it was
             \* initialised to while this entry is evaluated
             avg_sessions_per_user   |->
                 Rat(num_sessions, Max2(1, Get(EmptyDict, "unique_users", 1))),
             geographic_distribution |-> c.countries,
             top_countries           |-> Take(SortedDesc(c.countries), 5)],
         technical_metrics |->
            [browsers          |-> c.browsers,
             devices           |-> c.devices,
             platforms         |-> c.platforms,
             top_browser       |-> IF c.browsers # <<>> THEN MaxKey(c.browsers)
                                   ELSE "Unknown",
             mobile_percentage |-> MobilePercentage(c.devices, num_sessions)],
         engagement_metrics |->
            [avg_duration |-> Rat(c.total_duration, num_sessions),
             avg_pages    |-> Rat(c.total_pages, num_sessions),
             avg_events   |-> Rat(c.total_events, num_sessions),
             bounce_rate  |->
                 Rat(CountIf(IsBounce, ss) * 100, num_sessions),
             high_engagement_sessions |->
                 CountIf(LAMBDA s : Get(s, "duration", 0) > 300000, ss)],
         issue_analysis |->
            [error_rate           |-> Rat(c.sessions_with_errors * 100, num_sessions),
             sessions_with_errors |-> c.sessions_with_errors,
             issue_types          |-> c.issue_types,
             critical_issues      |->
                 SelectSeq(c.issue_types, LAMBDA e : IsCritical(e.n, num_sessions))],
         time_patterns |->
            [hourly_distribution |-> c.hourly_distribution,
             peak_hours  |-> Take(SortedDesc(Enumerate(c.hourly_distribution)), 3),
             date_range  |-> [start |-> MinStartTs(ss), end |-> MaxStartTs(ss)]]]

(* An analysis without the empty-list guard, dividing by len(sessions). *)
analyze_session_patterns_unguarded(ss) ==
    IF ss = <<>> THEN [raised |-> "ZeroDivisionError"]
    ELSE Summary(Loop(InitCounters, ss), ss)

analyze_session_patterns(ss) ==
    IF ss = <<>> THEN NoSessions
    ELSE Summary(Loop(InitCounters, ss), ss)

-----------------------------------------------------------------------------
(* SessionAnalyzer.generate_insights, openreplay_mcp_server.py.           *)
(* An insight string is kept as the rule that formats it and the values   *)
(* formatted into it: a name, a number (tenths for :.1f, the hour for     *)
(* :02d) and a count.                                                      *)

Ins(rule, name, value, count) ==
    [rule |-> rule, name |-> name, value |-> value, count |-> count]

(* issue_type.replace('_', ' ').title() on the issue types of the model *)
TitleOf(issue_type) ==
    CASE issue_type = "rage_click" -> "Rage Click"
      [] issue_type = "dead_click" -> "Dead Click"
      [] issue_type = "js_exception" -> "Js Exception"
      [] OTHER -> issue_type

UserInsights(user_metrics) ==
    IF Get(user_metrics, "unique_users", 0) > 0
    THEN LET avg_sessions == Get(user_metrics, "avg_sessions_per_user", Zero)
         IN  IF RatLess(RatOfInt(3), avg_sessions)
             THEN <<Ins("high_user_engagement", "", Fmt1(avg_sessions), 0)>>
             ELSE IF RatLess(avg_sessions, Rat(3, 2))
                  THEN <<Ins("low_return_rate", "", Fmt1(avg_sessions), 0)>>
                  ELSE <<>>
    ELSE <<>>

(* Geography rules that take ten countries for global reach already. *)
GeographicInsightsFrom10(user_metrics) ==
    LET top_countries == Get(user_metrics, "top_countries", <<>>)
        distribution  == Get(user_metrics, "geographic_distribution", <<>>)
    IN  IF Len(top_countries) > 0
        THEN IF Len(distribution) >= 10
             THEN <<Ins("global_reach", "", 0, Len(distribution))>>
             ELSE <<Ins("concentrated_user_base", top_countries[1].key, 0,
                        top_countries[1].n)>>
        ELSE <<>>

GeographicInsights(user_metrics) ==
    LET top_countries == Get(user_metrics, "top_countries", <<>>)
        distribution  == Get(user_metrics, "geographic_distribution", <<>>)
    IN  IF Len(top_countries) > 0
        THEN IF Len(distribution) > 10
             THEN <<Ins("global_reach", "", 0, Len(distribution))>>
             ELSE <<Ins("concentrated_user_base", top_countries[1].key, 0,
                        top_countries[1].n)>>
        ELSE <<>>

(* Mobile/desktop rules that take 50 itself for mobile-first. *)
TechnicalInsightsFrom50(tech_metrics) ==
    LET mobile_pct == Get(tech_metrics, "mobile_percentage", Zero)
    IN  IF ~RatLess(mobile_pct, RatOfInt(50))
        THEN <<Ins("mobile_first", "", Fmt1(mobile_pct), 0)>>
        ELSE IF RatLess(mobile_pct, RatOfInt(20))
             THEN <<Ins("desktop_dominated", "",
                        Fmt1(Rat(100 * mobile_pct.den - mobile_pct.num,
                                 mobile_pct.den)), 0)>>
             ELSE <<>>

TechnicalInsights(tech_metrics) ==
    LET mobile_pct == Get(tech_metrics, "mobile_percentage", Zero)
    IN  IF RatLess(RatOfInt(50), mobile_pct)
        THEN <<Ins("mobile_first", "", Fmt1(mobile_pct), 0)>>
        ELSE IF RatLess(mobile_pct, RatOfInt(20))
             THEN <<Ins("desktop_dominated", "",
                        Fmt1(Rat(100 * mobile_pct.den - mobile_pct.num,
                                 mobile_pct.den)), 0)>>
             ELSE <<>>

(* Duration rules that are skipped when the summary has no avg_duration. *)
DurationInsightsIfPresent(engagement) ==
    IF "avg_duration" \notin DOMAIN engagement THEN <<>>
    ELSE LET avg_duration     == engagement["avg_duration"]
             avg_duration_min == Rat(avg_duration.num, avg_duration.den * 60000)
         IN  IF RatLess(avg_duration_min, RatOfInt(1))
             THEN <<Ins("very_short_sessions", "", Fmt1(avg_duration_min), 0)>>
             ELSE IF RatLess(RatOfInt(10), avg_duration_min)
                  THEN <<Ins("long_engagement", "", Fmt1(avg_duration_min), 0)>>
                  ELSE <<>>

DurationInsights(engagement) ==
    LET avg_duration     == Get(engagement, "avg_duration", Zero)
        avg_duration_min == Rat(avg_duration.num, avg_duration.den * 60000)
    IN  IF RatLess(avg_duration_min, RatOfInt(1))
        THEN <<Ins("very_short_sessions", "", Fmt1(avg_duration_min), 0)>>
        ELSE IF RatLess(RatOfInt(10), avg_duration_min)
             THEN <<Ins("long_engagement", "", Fmt1(avg_duration_min), 0)>>
             ELSE <<>>

(* Bounce rules that take a missing bounce rate for 100. *)
BounceInsightsDefaultHigh(engagement) ==
    LET bounce_rate == Get(engagement, "bounce_rate", RatOfInt(100))
    IN  IF RatLess(RatOfInt(70), bounce_rate)
        THEN <<Ins("high_bounce_rate", "", Fmt1(bounce_rate), 0)>>
        ELSE IF RatLess(bounce_rate, RatOfInt(30))
             THEN <<Ins("excellent_bounce_rate", "", Fmt1(bounce_rate), 0)>>
             ELSE <<>>

BounceInsights(engagement) ==
    LET bounce_rate == Get(engagement, "bounce_rate", Zero)
    IN  IF RatLess(RatOfInt(70), bounce_rate)
        THEN <<Ins("high_bounce_rate", "", Fmt1(bounce_rate), 0)>>
        ELSE IF RatLess(bounce_rate, RatOfInt(30))
             THEN <<Ins("excellent_bounce_rate", "", Fmt1(bounce_rate), 0)>>
             ELSE <<>>

(* Error-rate rules whose 'needs attention' band starts at 20 itself. *)
ErrorRateInsightsFrom20(issues) ==
    LET error_rate == Get(issues, "error_rate", Zero)
    IN  IF RatLess(RatOfInt(50), error_rate)
        THEN <<Ins("critical_errors", "", Fmt1(error_rate), 0)>>
        ELSE IF ~RatLess(error_rate, RatOfInt(20))
             THEN <<Ins("errors_need_attention", "", Fmt1(error_rate), 0)>>
             ELSE IF RatLess(Zero, error_rate)
                  THEN <<Ins("errors_monitor", "", Fmt1(error_rate), 0)>>
                  ELSE <<>>

ErrorRateInsights(issues) ==
    LET error_rate == Get(issues, "error_rate", Zero)
    IN  IF RatLess(RatOfInt(50), error_rate)
        THEN <<Ins("critical_errors", "", Fmt1(error_rate), 0)>>
        ELSE IF RatLess(RatOfInt(20), error_rate)
             THEN <<Ins("errors_need_attention", "", Fmt1(error_rate), 0)>>
             ELSE IF RatLess(Zero, error_rate)
                  THEN <<Ins("errors_monitor", "", Fmt1(error_rate), 0)>>
                  ELSE <<>>

CriticalIssueInsights(issues) ==
    LET critical_issues == Get(issues, "critical_issues", <<>>)
        top             == Take(critical_issues, 2)
    IN  [i \in 1..Len(top) |->
            Ins("critical_issue", TitleOf(top[i].key), 0, top[i].n)]

PeakHourInsights(time_patterns) ==
    LET peak_hours == Get(time_patterns, "peak_hours", <<>>)
    IN  IF peak_hours # <<>>
        THEN <<Ins("peak_usage", "", peak_hours[1].key, peak_hours[1].n)>>
        ELSE <<>>

(* The same rules evaluated engagement first. *)
generate_insights_engagement_first(p) ==
    LET user_metrics  == Get(p, "user_metrics", EmptyDict)
        tech_metrics  == Get(p, "technical_metrics", EmptyDict)
        engagement    == Get(p, "engagement_metrics", EmptyDict)
        issues        == Get(p, "issue_analysis", EmptyDict)
        time_patterns == Get(p, "time_patterns", EmptyDict)
    IN  DurationInsights(engagement)
        \o BounceInsights(engagement)
        \o UserInsights(user_metrics)
        \o GeographicInsights(user_metrics)
        \o TechnicalInsights(tech_metrics)
        \o ErrorRateInsights(issues)
        \o CriticalIssueInsights(issues)
        \o PeakHourInsights(time_patterns)

generate_insights(p) ==
    LET user_metrics  == Get(p, "user_metrics", EmptyDict)
        tech_metrics  == Get(p, "technical_metrics", EmptyDict)
        engagement    == Get(p, "engagement_metrics", EmptyDict)
        issues        == Get(p, "issue_analysis", EmptyDict)
        time_patterns == Get(p, "time_patterns", EmptyDict)
    IN  UserInsights(user_metrics)
        \o GeographicInsights(user_metrics)
        \o TechnicalInsights(tech_metrics)
        \o DurationInsights(engagement)
        \o BounceInsights(engagement)
        \o ErrorRateInsights(issues)
        \o CriticalIssueInsights(issues)
        \o PeakHourInsights(time_patterns)

-----------------------------------------------------------------------------
(* SessionAnalyzer, openreplay_mcp_working.py: no issue types, the error  *)
(* rate among the engagement metrics.                                      *)

InitCountersWorking ==
    [total_duration       |-> 0,
     total_pages          |-> 0,
     total_events         |-> 0,
     sessions_with_errors |-> 0,
     browsers             |-> EmptyTable,
     devices              |-> EmptyTable,
     countries            |-> EmptyTable,
     platforms            |-> EmptyTable,
     hourly_distribution  |-> [h \in 1..24 |-> 0]]

LoopBodyWorking(c, session) ==
    [total_duration       |-> c.total_duration + Get(session, "duration", 0),
     total_pages          |-> c.total_pages + Get(session, "pagesCount", 0),
     total_events         |-> c.total_events + Get(session, "eventsCount", 0),
     sessions_with_errors |-> IF Get(session, "errorsCount", 0) > 0
                              THEN c.sessions_with_errors + 1
                              ELSE c.sessions_with_errors,
     browsers             |-> Incr(c.browsers, Get(session, "userBrowser", "Unknown")),
     devices              |-> Incr(c.devices, DeviceOf(session)),
     countries            |-> Incr(c.countries, Get(session, "userCountry", "Unknown")),
     platforms            |-> Incr(c.platforms, Get(session, "platform", "web")),
     hourly_distribution  |->
         IF HasStartTs(session)
         THEN [c.hourly_distribution
                  EXCEPT ![HourOf(session["startTs"]) + 1] = @ + 1]
         ELSE c.hourly_distribution]

RECURSIVE LoopWorking(_, _)
LoopWorking(c, ss) ==
    IF ss = <<>> THEN c ELSE LoopWorking(LoopBodyWorking(c, Head(ss)), Tail(ss))

SummaryWorking(c, ss) ==
    LET num_sessions == Len(ss)
    IN  [total_sessions |-> Len(ss),
         user_metrics |->
            [unique_users            |-> Cardinality({UserOf(ss[i]) : i \in 1..Len(ss)}),
             geographic_distribution |-> c.countries,
             top_countries           |-> Take(SortedDesc(c.countries), 5)],
         technical_metrics |->
            [browsers          |-> c.browsers,
             devices           |-> c.devices,
             platforms         |-> c.platforms,
             top_browser       |-> IF c.browsers # <<>> THEN MaxKey(c.browsers)
                                   ELSE "Unknown",
             mobile_percentage |-> MobilePercentage(c.devices, num_sessions)],
         engagement_metrics |->
            [avg_duration |-> Rat(c.total_duration, num_sessions),
             avg_pages    |-> Rat(c.total_pages, num_sessions),
             avg_events   |-> Rat(c.total_events, num_sessions),
             bounce_rate  |->
                 Rat(CountIf(IsBounce, ss) * 100, num_sessions),
             high_engagement_sessions |->
                 CountIf(LAMBDA s : Get(s, "duration", 0) > 300000, ss),
             error_rate           |-> Rat(c.sessions_with_errors * 100, num_sessions),
             sessions_with_errors |-> c.sessions_with_errors],
         time_patterns |->
            [hourly_distribution |-> c.hourly_distribution,
             peak_hours  |-> Take(SortedDesc(Enumerate(c.hourly_distribution)), 3)]]

analyze_session_patterns_working(ss) ==
    IF ss = <<>> THEN NoSessions
    ELSE SummaryWorking(LoopWorking(InitCountersWorking, ss), ss)

(* The error-rate rules with their else branch. *)
ErrorRateInsightsWorking(engagement) ==
    LET error_rate == Get(engagement, "error_rate", Zero)
    IN  IF RatLess(RatOfInt(50), error_rate)
        THEN <<Ins("critical_errors", "", Fmt1(error_rate), 0)>>
        ELSE IF RatLess(RatOfInt(20), error_rate)
             THEN <<Ins("errors_need_attention", "", Fmt1(error_rate), 0)>>
             ELSE IF RatLess(Zero, error_rate)
                  THEN <<Ins("errors_monitor", "", Fmt1(error_rate), 0)>>
                  ELSE <<Ins("no_errors", "", 0, 0)>>

BrowserInsights(browsers) ==
    IF browsers # <<>>
    THEN LET top_browser == MaxKey(browsers)
             browser_pct == Rat(TableGet(browsers, top_browser, 0) * 100,
                                SumValues(browsers))
         IN  <<Ins("browser_dominates", top_browser, Fmt1(browser_pct), 0)>>
    ELSE <<>>

generate_insights_working(p) ==
    LET engagement    == Get(p, "engagement_metrics", EmptyDict)
        tech          == Get(p, "technical_metrics", EmptyDict)
        time_patterns == Get(p, "time_patterns", EmptyDict)
    IN  DurationInsights(engagement)
        \o BounceInsights(engagement)
        \o ErrorRateInsightsWorking(engagement)
        \o TechnicalInsights(tech)
        \o BrowserInsights(Get(tech, "browsers", <<>>))
        \o PeakHourInsights(time_patterns)

-----------------------------------------------------------------------------
(* AdvancedSessionAnalyzer, openreplay_session_analyzer_v2.py: a flat     *)
(* summary, the counters kept in the summary itself.                       *)

InitPatternsV2 ==
    [common_errors        |-> EmptyTable,
     common_pages         |-> EmptyTable,
     avg_duration         |-> Zero,
     avg_pages            |-> Zero,
     avg_events           |-> Zero,
     browsers             |-> EmptyTable,
     devices              |-> EmptyTable,
     countries            |-> EmptyTable,
     issue_types          |-> EmptyTable,
     sessions_with_errors |-> 0]

InitTotalsV2 == [total_duration |-> 0, total_pages |-> 0, total_events |-> 0]

(* One iteration: c.p is the summary under construction, c.t the totals. *)
LoopBodyV2(c, session) ==
    [t |-> [total_duration |-> c.t.total_duration + Get(session, "duration", 0),
            total_pages    |-> c.t.total_pages + Get(session, "pagesCount", 0),
            total_events   |-> c.t.total_events + Get(session, "eventsCount", 0)],
     p |-> [c.p EXCEPT
              !.sessions_with_errors =
                  IF Get(session, "errorsCount", 0) > 0 THEN @ + 1 ELSE @,
              !.browsers    = Incr(@, Get(session, "userBrowser", "Unknown")),
              !.devices     = Incr(@, Get(session, "userDevice", "Desktop")),
              !.countries   = Incr(@, Get(session, "userCountry", "Unknown")),
              !.issue_types = CountIssues(@, Get(session, "issueTypes", <<>>))]]

RECURSIVE LoopV2(_, _)
LoopV2(c, ss) ==
    IF ss = <<>> THEN c ELSE LoopV2(LoopBodyV2(c, Head(ss)), Tail(ss))

analyze_session_patterns_v2(ss) ==
    IF ss = <<>> THEN NoSessions
    ELSE LET c            == LoopV2([t |-> InitTotalsV2, p |-> InitPatternsV2], ss)
             num_sessions == Len(ss)
         IN  [error_rate |-> Rat(c.p.sessions_with_errors * 100, num_sessions)]
             @@ [c.p EXCEPT
                   !.avg_duration = Rat(c.t.total_duration, num_sessions),
                   !.avg_pages    = Rat(c.t.total_pages, num_sessions),
                   !.avg_events   = Rat(c.t.total_events, num_sessions)]

generate_insights_v2(p) ==
    LET avg_duration     == Get(p, "avg_duration", Zero)
        avg_duration_min == Rat(avg_duration.num, avg_duration.den * 60000)
        error_rate       == Get(p, "error_rate", Zero)
        browsers         == Get(p, "browsers", <<>>)
        countries        == Get(p, "countries", <<>>)
        avg_pages        == Get(p, "avg_pages", Zero)
        issue_types      == Get(p, "issue_types", <<>>)
    IN  (IF RatLess(avg_duration_min, RatOfInt(1))
         THEN <<Ins("very_short_sessions", "", Fmt1(avg_duration_min), 0)>>
         ELSE IF RatLess(RatOfInt(30), avg_duration_min)
              THEN <<Ins("long_engagement", "", Fmt1(avg_duration_min), 0)>>
              ELSE <<>>)
        \o ErrorRateInsightsWorking(p)
        \o BrowserInsights(browsers)
        \o (IF Len(countries) > 5
            THEN <<Ins("global_user_base", "", 0, Len(countries))>>
            ELSE <<>>)
        \o (IF RatLess(avg_pages, RatOfInt(2))
            THEN <<Ins("low_page_engagement", "", 0, 0)>>
            ELSE IF RatLess(RatOfInt(10), avg_pages)
                 THEN <<Ins("high_page_engagement", "", 0, 0)>>
                 ELSE <<>>)
        \o (IF issue_types # <<>>
            THEN <<Ins("most_common_issue", MaxKey(issue_types), 0,
                       TableGet(issue_types, MaxKey(issue_types), 0))>>
            ELSE <<>>)

-----------------------------------------------------------------------------
(* The session lists the analyzers are run on *)

MaxLen == 3     \* longest list of freely chosen records
MaxRep == 10    \* most copies of one record in a two-block list
MaxMult == 2    \* most sessions of one country in a many-country list

Hour == 60 * 60 * 1000 \* milliseconds

EngagementRecords ==
    { EmptyDict,
      [duration |-> 0, pagesCount |-> 1, errorsCount |-> 0],
      [duration |-> 600000, pagesCount |-> 1, errorsCount |-> 1],
      [duration |-> 1200000, pagesCount |-> 5, eventsCount |-> 40, errorsCount |-> 2],
      [duration |-> 60000, pagesCount |-> 2],
      [pagesCount |-> 0, errorsCount |-> 3, userDevice |-> "Mobile"] }

TechnicalRecords ==
    { EmptyDict,
      [userBrowser |-> "Chrome", userDevice |-> "Mobile", platform |-> "web"],
      [userBrowser |-> "Firefox", userDevice |-> "", platform |-> "ios"],
      [userBrowser |-> "Unknown", userDevice |-> "Desktop"],
      [userDevice |-> "Unknown", platform |-> "Unknown", errorsCount |-> 1],
      [userBrowser |-> "Chrome", userDevice |-> "Tablet", pagesCount |-> 3] }

GeographyRecords ==
    { EmptyDict,
      [userCountry |-> "US", userId |-> "u1"],
      [userCountry |-> "DE", userId |-> "u2"],
      [userCountry |-> "FR", userUuid |-> "u1"],
      [userCountry |-> "Unknown", userId |-> "u1", userUuid |-> "x"],
      [userCountry |-> "US"] }

IssueRecords ==
    { EmptyDict,
      [issueTypes |-> <<>>],
      [issueTypes |-> <<"rage_click">>, errorsCount |-> 1],
      [issueTypes |-> <<"dead_click">>],
      [issueTypes |-> <<"dead_click", "rage_click">>],
      [issueTypes |-> <<"rage_click", "rage_click">>],
      [issueTypes |-> <<"dead_click", "js_exception">>] }

TimeRecords ==
    { EmptyDict,
      [startTs |-> 0],
      [startTs |-> Hour \div 2],
      [startTs |-> Hour],
      [startTs |-> 25 * Hour],
      [startTs |-> 23 * Hour, userCountry |-> "US"] }

UtcOffsets == {0, 5}

SeqsUpTo(S, n) == UNION {[1..k -> S] : k \in 0..n}

Repeat(r, k) == [i \in 1..k |-> r]

(* a copies of one record followed by b copies of another: lists long    *)
(* enough for the percentages 10, 20, 30, 50 and 70 to be met exactly.    *)
BlockPairs ==
    { <<[issueTypes |-> <<"rage_click">>], EmptyDict>>,
      <<[issueTypes |-> <<"rage_click">>, errorsCount |-> 1],
        [issueTypes |-> <<"dead_click">>]>>,
      <<[pagesCount |-> 1, errorsCount |-> 1, userDevice |-> "Mobile"],
        [pagesCount |-> 4, duration |-> 600000]>> }

BlockLists ==
    { Repeat(pr[1], a) \o Repeat(pr[2], b) :
        pr \in BlockPairs, a \in 0..MaxRep, b \in 0..MaxRep }

(* Lists over six countries, each country a block of 0..MaxMult sessions *)
(* that started in the first hour of 1970 (odd blocks) or the second.     *)
CountryNames == <<"US", "DE", "FR", "JP", "BR", "IN">>

RECURSIVE CountryBlocks(_, _)
CountryBlocks(m, i) ==
    IF i > Len(CountryNames) THEN <<>>
    ELSE Repeat([userCountry |-> CountryNames[i],
                 startTs |-> IF i % 2 = 1 THEN Hour \div 2 ELSE Hour], m[i])
         \o CountryBlocks(m, i + 1)

CountryLists ==
    { CountryBlocks(m, 1) : m \in [1..Len(CountryNames) -> 0..MaxMult] }

(* Lists with one session from each of the first k of twelve countries,   *)
(* followed by 0..MaxMult more sessions from the first: 10 and 11         *)
(* distinct countries are both met.                                       *)
ManyCountryNames ==
    <<"US", "DE", "FR", "JP", "BR", "IN", "GB", "CA", "AU", "ES", "IT", "NL">>

ManyCountryLists ==
    { [i \in 1..k |-> [userCountry |-> ManyCountryNames[i]]]
        \o Repeat([userCountry |-> ManyCountryNames[1]], r) :
        k \in 1..Len(ManyCountryNames), r \in 0..MaxMult }

TimedInputs == SeqsUpTo(TimeRecords, MaxLen)

UntimedInputs ==
    SeqsUpTo(EngagementRecords, MaxLen) \cup SeqsUpTo(TechnicalRecords, MaxLen)
    \cup SeqsUpTo(GeographyRecords, MaxLen) \cup SeqsUpTo(IssueRecords, MaxLen)
    \cup BlockLists \cup CountryLists \cup ManyCountryLists

-----------------------------------------------------------------------------
(* The caller: analyze_session_patterns, then generate_insights on what   *)
(* it returned, and the same once more on the same list.                  *)

Nothing == [nothing |-> TRUE]

NoException == [type |-> "none", text |-> ""]

(* An Optional[str] argument is <<>> for None and <<s>> for the str s. *)
NoArgs == [action |-> "", message |-> <<>>, note_id |-> <<>>]

(* No tool call is under way, no client method has been awaited and the  *)
(* OpenReplayClient is as constructed (self._client = None).              *)
ToolIdle ==
    /\ tool = "none"
    /\ tpc = "idle"
    /\ fetched = 0
    /\ raised = NoException
    /\ returned = <<>>
    /\ args = NoArgs
    /\ calls = <<>>
    /\ handle = 0
    /\ http = <<>>

(* detect_problem_patterns has not been called. *)
DetectIdle ==
    /\ events = <<>>
    /\ problems = Nothing

Init ==
    /\ \/ sessions \in UntimedInputs /\ utcOffset = 0
       \/ sessions \in TimedInputs /\ utcOffset \in UtcOffsets
    /\ variant = "none"
    /\ pc = "idle"
    /\ run = 1
    /\ patterns = Nothing
    /\ insights = <<>>
    /\ first = [patterns |-> Nothing, insights |-> <<>>]
    /\ ToolIdle
    /\ DetectIdle

(* An analysis that empties the list it is handed (sessions.pop() in the *)
(* loop).                                                                 *)
AnalyzeDraining(v, result) ==
    /\ pc = "idle"
    /\ run = 1 \/ variant = v
    /\ variant' = v
    /\ patterns' = result
    /\ pc' = "analyzed"
    /\ sessions' = <<>>
    /\ UNCHANGED <<utcOffset, run, insights, first>>
    /\ UNCHANGED <<toolVars, detectVars>>

Analyze(v, result) ==
    /\ pc = "idle"
    /\ run = 1 \/ variant = v
    /\ variant' = v
    /\ patterns' = result
    /\ pc' = "analyzed"
    /\ UNCHANGED <<sessions, utcOffset, run, insights, first>>
    /\ UNCHANGED <<toolVars, detectVars>>

AnalyzeServer == Analyze("server", analyze_session_patterns(sessions))

AnalyzeWorking == Analyze("working", analyze_session_patterns_working(sessions))

AnalyzeV2 == Analyze("v2", analyze_session_patterns_v2(sessions))

Insights(v, result) ==
    /\ pc = "analyzed"
    /\ variant = v
    /\ insights' = result
    /\ pc' = "done"
    /\ UNCHANGED <<sessions, utcOffset, variant, run, patterns, first>>
    /\ UNCHANGED <<toolVars, detectVars>>

InsightsServer == Insights("server", generate_insights(patterns))

InsightsWorking == Insights("working", generate_insights_working(patterns))

InsightsV2 == Insights("v2", generate_insights_v2(patterns))

(* The caller keeps what the first invocation returned and starts over. *)
Again ==
    /\ pc = "done"
    /\ run = 1
    /\ first' = [patterns |-> patterns, insights |-> insights]
    /\ run' = 2
    /\ pc' = "idle"
    /\ UNCHANGED <<sessions, utcOffset, variant, patterns, insights>>
    /\ UNCHANGED <<toolVars, detectVars>>

Next ==
    \/ AnalyzeServer
    \/ AnalyzeWorking
    \/ AnalyzeV2
    \/ InsightsServer
    \/ InsightsWorking
    \/ InsightsV2
    \/ Again

Spec == Init /\ [][Next]_vars

-----------------------------------------------------------------------------
(* generate_insights on a summary that lacks sections or fields: the      *)
(* summary of a four-session list with some of the sections, or some of   *)
(* the fields the rules read, taken out.                                   *)

SummarySections ==
    {"user_metrics", "technical_metrics", "engagement_metrics",
     "issue_analysis", "time_patterns"}

SummaryFields ==
    {"unique_users", "avg_sessions_per_user", "top_countries",
     "geographic_distribution", "mobile_percentage", "browsers",
     "avg_duration", "bounce_rate", "error_rate", "critical_issues",
     "peak_hours"}

Restrict(d, dropped) == [k \in DOMAIN d \ dropped |-> d[k]]

Partial(p, dropped) ==
    [section \in DOMAIN p \ dropped |->
        IF section \in SummarySections THEN Restrict(p[section], dropped)
        ELSE p[section]]

Drops == SUBSET SummaryFields \cup SUBSET SummarySections

PartialBases == {ss \in BlockLists : Len(ss) = 4}

InitPartial ==
    /\ sessions \in PartialBases
    /\ utcOffset = 0
    /\ variant \in {"server", "working"}
    /\ pc = "summarised"
    /\ run = 1
    /\ patterns = IF variant = "server"
                  THEN analyze_session_patterns(sessions)
                  ELSE analyze_session_patterns_working(sessions)
    /\ insights = <<>>
    /\ first = [patterns |-> Nothing, insights |-> <<>>]
    /\ ToolIdle
    /\ DetectIdle

(* The summary reaches generate_insights without some of its parts. *)
Lose ==
    /\ pc = "summarised"
    /\ \E dropped \in Drops : patterns' = Partial(patterns, dropped)
    /\ pc' = "analyzed"
    /\ UNCHANGED <<sessions, utcOffset, variant, run, insights, first>>
    /\ UNCHANGED <<toolVars, detectVars>>

NextPartial ==
    \/ Lose
    \/ InsightsServer
    \/ InsightsWorking

SpecPartial == InitPartial /\ [][NextPartial]_vars

-----------------------------------------------------------------------------
(* The MCP tool functions: each is one try block around its argument      *)
(* parsing, its client requests and its formatting, with one handler,     *)
(* 'except Exception as e: return f"Error <doing>: {str(e)}"'.  A string  *)
(* is kept as the sequence of its words, the exception text as one word.  *)

(* openreplay_mcp_server.py: methods are the client methods the call      *)
(* awaits, in the order it awaits them; parses whether it parses dates    *)
(* before the first.  manage_session_notes awaits the method of the       *)
(* branch its arguments select (NotesMethods).                            *)
ServerTools ==
    [search_sessions |->
        [methods |-> <<"search_sessions">>,
         parses |-> TRUE, interleaved |-> FALSE,
         error |-> <<"Error", "searching", "sessions:">>],
     get_live_sessions |->
        [methods |-> <<"get_live_sessions">>,
         parses |-> FALSE, interleaved |-> FALSE,
         error |-> <<"Error", "getting", "live", "sessions:">>],
     analyze_session_replay |->
        [methods |-> <<"get_session_replay", "get_session_events">>,
         parses |-> FALSE, interleaved |-> FALSE,
         error |-> <<"Error", "analyzing", "session", "replay:">>],
     search_errors |->
        [methods |-> <<"search_errors">>,
         parses |-> TRUE, interleaved |-> FALSE,
         error |-> <<"Error", "searching", "errors:">>],
     get_error_details |->
        [methods |-> <<"get_error_details", "get_error_sessions">>,
         parses |-> FALSE, interleaved |-> FALSE,
         error |-> <<"Error", "getting", "error", "details:">>],
     manage_session_notes |->
        [methods |-> <<"get_session_notes">>,
         parses |-> FALSE, interleaved |-> FALSE,
         error |-> <<"Error", "managing", "session", "notes:">>],
     get_user_analysis |->
        [methods |-> <<"get_user_stats", "get_user_sessions">>,
         parses |-> FALSE, interleaved |-> FALSE,
         error |-> <<"Error", "analyzing", "user:">>],
     get_session_heatmap |->
        [methods |-> <<"get_session_heatmap">>,
         parses |-> FALSE, interleaved |-> FALSE,
         error |-> <<"Error", "getting", "heatmap:">>],
     search_notes |->
        [methods |-> <<"search_notes">>,
         parses |-> FALSE, interleaved |-> FALSE,
         error |-> <<"Error", "searching", "notes:">>]]

(* openreplay_mcp_working.py: get_project_overview formats between its    *)
(* three requests.                                                        *)
WorkingTools ==
    [analyze_user_sessions |->
        [methods |-> <<"get_user_stats", "get_user_sessions">>,
         parses |-> FALSE, interleaved |-> FALSE,
         error |-> <<"Error", "analyzing", "user", "sessions:">>],
     get_session_details |->
        [methods |-> <<"get_session_events">>,
         parses |-> FALSE, interleaved |-> FALSE,
         error |-> <<"Error", "analyzing", "session:">>],
     monitor_live_sessions |->
        [methods |-> <<"get_live_sessions">>,
         parses |-> FALSE, interleaved |-> FALSE,
         error |-> <<"Error", "monitoring", "live", "sessions:">>],
     get_project_overview |->
        [methods |-> <<"get_project_details", "get_projects", "get_live_sessions">>,
         parses |-> FALSE, interleaved |-> TRUE,
         error |-> <<"Error", "getting", "project", "overview:">>]]

ToolTable == ServerTools @@ WorkingTools

ToolNames == DOMAIN ToolTable

(* bool(x) of an Optional[str] *)
Truthy(x) == x # <<>> /\ x[1] # ""

(* manage_session_notes: the if/elif chain on action, message and note_id *)
(* that picks the one client method to await; <<>> is the else branch.    *)
NotesMethodsUpdateById(a) ==
    IF a.action = "get" THEN <<"get_session_notes">>
    ELSE IF a.action = "create" /\ Truthy(a.message)
         THEN <<"create_session_note">>
    ELSE IF a.action = "update" /\ Truthy(a.note_id)
         THEN <<"update_session_note">>
    ELSE IF a.action = "delete" /\ Truthy(a.note_id)
         THEN <<"delete_session_note">>
    ELSE <<>>

NotesMethods(a) ==
    IF a.action = "get" THEN <<"get_session_notes">>
    ELSE IF a.action = "create" /\ Truthy(a.message)
         THEN <<"create_session_note">>
    ELSE IF a.action = "update" /\ Truthy(a.note_id) /\ Truthy(a.message)
         THEN <<"update_session_note">>
    ELSE IF a.action = "delete" /\ Truthy(a.note_id)
         THEN <<"delete_session_note">>
    ELSE <<>>

(* The client methods the call under way awaits. *)
Methods ==
    IF tool = "manage_session_notes" THEN NotesMethods(args)
    ELSE ToolTable[tool].methods

(* The arguments a caller may pass to manage_session_notes. *)
NotesArgs ==
    [action  : {"get", "create", "update", "delete", "list"},
     message : {<<>>, <<"">>, <<"checked">>},
     note_id : {<<>>, <<"">>, <<"n1">>}]

(* The responses the remote API may give to a request. *)
Responses ==
    { [status |-> 200, body |-> "{\"data\": []}"],
      [status |-> 201, body |-> "{\"data\": {}}"],
      [status |-> 200, body |-> "<html>"],
      [status |-> 204, body |-> ""],
      [status |-> 404, body |-> "{\"data\": []}"],
      [status |-> 500, body |-> ""] }

(* Response.raise_for_status(): the HTTPStatusError for a response that   *)
(* is not a success (2xx), NoException for one that is.                   *)
raise_for_status(r) ==
    IF r.status \in 200..299 THEN NoException
    ELSE IF r.status \in 400..499
         THEN [type |-> "HTTPStatusError", text |-> "Client error 404 Not Found"]
         ELSE [type |-> "HTTPStatusError",
               text |-> "Server error 500 Internal Server Error"]

(* Response.json(): the value the body parses to, or the                  *)
(* json.JSONDecodeError raised for a body that is not JSON.               *)
json(body) ==
    IF body = "{\"data\": []}"
    THEN [raises |-> NoException, value |-> [data |-> <<>>]]
    ELSE IF body = "{\"data\": {}}"
         THEN [raises |-> NoException, value |-> [data |-> EmptyDict]]
         ELSE [raises |-> [type |-> "JSONDecodeError", text |-> "Expecting value"],
               value  |-> Nothing]

(* The two statements of every client method after its request:           *)
(* response.raise_for_status(); return response.json()                    *)
MethodResult(r) ==
    IF raise_for_status(r) # NoException
    THEN [raises |-> raise_for_status(r), value |-> Nothing]
    ELSE json(r.body)

(* What the steps of a tool call raise.  asyncio.CancelledError, raised   *)
(* at an await when the call is cancelled, derives from BaseException and *)
(* not from Exception.                                                    *)
ParseExceptions ==
    { [type |-> "ValueError", text |-> "time data does not match format"] }

(* Raised by the await of the request when no response arrives. *)
FetchExceptions ==
    { [type |-> "ConnectError", text |-> "All connection attempts failed"],
      [type |-> "CancelledError", text |-> ""] }

FormatExceptions ==
    { [type |-> "KeyError", text |-> "'sessionId'"],
      [type |-> "TypeError", text |-> "unsupported operand type(s)"] }

(* isinstance(e, Exception) *)
IsException(e) == e.type # "CancelledError"

InvalidAction == <<"Invalid", "action", "or", "missing", "parameters.">>

-----------------------------------------------------------------------------
(* OpenReplayClient: the lazily made httpx.AsyncClient.  http[i] is the   *)
(* i-th instance made.                                                    *)

MaxClients == 3     \* most httpx.AsyncClient instances made in a run

(* A client property that makes a new AsyncClient at every access. *)
clientAlwaysNew ==
    [handle |-> Len(http) + 1, http |-> Append(http, "open")]

(* The client property: what self._client and the instances are after an *)
(* access; handle is the instance the access returns.                     *)
client ==
    IF handle = 0
    THEN [handle |-> Len(http) + 1, http |-> Append(http, "open")]
    ELSE [handle |-> handle, http |-> http]

(* The client methods of the call that have sent their request and are    *)
(* suspended at 'await self.client.get/post/put/delete(...)'.             *)
Awaiting == {i \in DOMAIN calls : calls[i].state = "awaiting"}

(* The awaited method has its response or its exception. *)
Settle(state, status, value) ==
    [i \in DOMAIN calls |->
        IF i \in Awaiting
        THEN [calls[i] EXCEPT !.state = state, !.status = status, !.value = value]
        ELSE calls[i]]

(* A handler that returns the message without the exception's text. *)
ExceptWithoutText(e) ==
    /\ raised' = e
    /\ IF IsException(e)
       THEN /\ returned' = ToolTable[tool].error
            /\ tpc' = "returned"
       ELSE /\ returned' = returned
            /\ tpc' = "raised"
    /\ UNCHANGED <<tool, fetched, args, handle, http>>
    /\ UNCHANGED <<analysisVars, detectVars>>

(* e is raised inside the try block: except Exception as e: return ... *)
Except(e) ==
    /\ raised' = e
    /\ IF IsException(e)
       THEN /\ returned' = ToolTable[tool].error \o <<e.text>>
            /\ tpc' = "returned"
       ELSE /\ returned' = returned
            /\ tpc' = "raised"
    /\ UNCHANGED <<tool, fetched, args, handle, http>>
    /\ UNCHANGED <<analysisVars, detectVars>>

InitTools ==
    /\ sessions = <<>>
    /\ utcOffset = 0
    /\ variant = "none"
    /\ pc = "idle"
    /\ run = 1
    /\ patterns = Nothing
    /\ insights = <<>>
    /\ first = [patterns |-> Nothing, insights |-> <<>>]
    /\ ToolIdle
    /\ DetectIdle

CallTool ==
    /\ tpc = "idle"
    /\ tool' \in ToolNames
    /\ IF tool' = "manage_session_notes"
       THEN args' \in NotesArgs
       ELSE args' = NoArgs
    /\ tpc' = "try"
    /\ UNCHANGED <<fetched, raised, returned, calls, handle, http>>
    /\ UNCHANGED <<analysisVars, detectVars>>

ParseRaises ==
    /\ tpc = "try"
    /\ calls = <<>>
    /\ ToolTable[tool].parses
    /\ calls' = calls
    /\ \E e \in ParseExceptions : Except(e)

(* manage_session_notes with an action it does not know or without the   *)
(* parameter the action needs.                                            *)
NotesInvalid ==
    /\ tpc = "try"
    /\ tool = "manage_session_notes"
    /\ Methods = <<>>
    /\ returned' = InvalidAction
    /\ tpc' = "returned"
    /\ UNCHANGED <<tool, fetched, raised, args, calls, handle, http>>
    /\ UNCHANGED <<analysisVars, detectVars>>

(* 'await client.<method>(...)': the next client method of the call runs *)
(* once the ones before it have returned; it reads self.client and sends  *)
(* its one request.  outstanding is the number of requests of the call   *)
(* that are awaiting their response when this one is sent.                *)
Request ==
    /\ tpc = "try"
    /\ Len(calls) = fetched
    /\ fetched < Len(Methods)
    /\ Len(client.http) <= MaxClients
    /\ handle' = client.handle
    /\ http' = client.http
    /\ calls' = Append(calls, [method      |-> Methods[fetched + 1],
                               on          |-> client.handle,
                               sent        |-> 1,
                               state       |-> "awaiting",
                               status      |-> 0,
                               value       |-> Nothing,
                               outstanding |-> Cardinality(Awaiting)])
    /\ UNCHANGED <<tool, tpc, fetched, raised, returned, args>>
    /\ UNCHANGED <<analysisVars, detectVars>>

(* The response is a success and its body parses: the method returns. *)
FetchReturns ==
    /\ tpc = "try"
    /\ Awaiting # {}
    /\ \E r \in Responses :
          /\ MethodResult(r).raises = NoException
          /\ calls' = Settle("returned", r.status, MethodResult(r).value)
    /\ fetched' = fetched + 1
    /\ UNCHANGED <<tool, tpc, raised, returned, args, handle, http>>
    /\ UNCHANGED <<analysisVars, detectVars>>

(* A method that sends its request once more when the response makes it   *)
(* raise.                                                                 *)
FetchRetries ==
    /\ tpc = "try"
    /\ Awaiting # {}
    /\ \E r \in Responses :
          /\ MethodResult(r).raises # NoException
          /\ IF \E i \in Awaiting : calls[i].sent = 1
             THEN /\ calls' = [i \in DOMAIN calls |->
                                  IF i \in Awaiting
                                  THEN [calls[i] EXCEPT !.sent = 2]
                                  ELSE calls[i]]
                  /\ UNCHANGED <<tool, tpc, fetched, raised, returned,
                                 args, handle, http>>
                  /\ UNCHANGED <<analysisVars, detectVars>>
             ELSE /\ calls' = Settle("raised", r.status, Nothing)
                  /\ Except(MethodResult(r).raises)

(* The response is not a success, or its body does not parse: the method *)
(* raises inside the tool's try block.                                    *)
FetchRaises ==
    /\ tpc = "try"
    /\ Awaiting # {}
    /\ \E r \in Responses :
          /\ MethodResult(r).raises # NoException
          /\ calls' = Settle("raised", r.status, Nothing)
          /\ Except(MethodResult(r).raises)

(* No response arrives: the await of the request raises. *)
FetchFails ==
    /\ tpc = "try"
    /\ Awaiting # {}
    /\ calls' = Settle("raised", 0, Nothing)
    /\ \E e \in FetchExceptions : Except(e)

(* Formatting that starts once the first response is in. *)
FormatRaisesEarly ==
    /\ tpc = "try"
    /\ Awaiting = {}
    /\ fetched >= 1
    /\ calls' = calls
    /\ \E e \in FormatExceptions : Except(e)

FormatRaises ==
    /\ tpc = "try"
    /\ Awaiting = {}
    /\ \/ fetched = Len(Methods) /\ fetched >= 1
       \/ ToolTable[tool].interleaved /\ fetched >= 1
    /\ calls' = calls
    /\ \E e \in FormatExceptions : Except(e)

FormatReturns ==
    /\ tpc = "try"
    /\ fetched = Len(Methods)
    /\ fetched >= 1
    /\ returned' = <<"output">>
    /\ tpc' = "returned"
    /\ UNCHANGED <<tool, fetched, raised, args, calls, handle, http>>
    /\ UNCHANGED <<analysisVars, detectVars>>

(* The call is over; the module's OpenReplayClient stays as it is. *)
Finish ==
    /\ tpc \in {"returned", "raised"}
    /\ tool' = "none"
    /\ tpc' = "idle"
    /\ fetched' = 0
    /\ raised' = NoException
    /\ returned' = <<>>
    /\ args' = NoArgs
    /\ calls' = <<>>
    /\ UNCHANGED <<handle, http>>
    /\ UNCHANGED <<analysisVars, detectVars>>

(* OpenReplayClient.close(): if self._client: await                      *)
(* self._client.aclose(); self._client = None                             *)
close ==
    /\ tpc = "idle"
    /\ IF handle # 0
       THEN /\ http' = [http EXCEPT ![handle] = "closed"]
            /\ handle' = 0
       ELSE UNCHANGED <<handle, http>>
    /\ UNCHANGED <<tool, tpc, fetched, raised, returned, args, calls>>
    /\ UNCHANGED <<analysisVars, detectVars>>

NextTools ==
    \/ CallTool
    \/ ParseRaises
    \/ NotesInvalid
    \/ Request
    \/ FetchReturns
    \/ FetchRaises
    \/ FetchFails
    \/ FormatRaises
    \/ FormatReturns
    \/ Finish
    \/ close

SpecTools == InitTools /\ [][NextTools]_vars

-----------------------------------------------------------------------------
(* OpenReplaySessionAnalysisToolsV2.search_user_sessions,                 *)
(* openreplay_session_analyzer_v2.py: one search, then the analysis of    *)
(* the sessions of the response and the formatting of the report, all in  *)
(* one try block.                                                         *)

(* Session records as a search response carries them. *)
SearchRecords ==
    { [sessionId |-> "s1"],
      [sessionId |-> "s2", duration |-> 120000, pagesCount |-> 3,
       errorsCount |-> 1, userBrowser |-> "Chrome",
       issueTypes |-> <<"rage_click">>],
      [sessionId |-> "s3", duration |-> 2400000, pagesCount |-> 12,
       userBrowser |-> "Firefox", userCountry |-> "DE"],
      [sessionId |-> "s4", startTs |-> Hour, errorsCount |-> 0,
       userBrowser |-> "Chrome"] }

(* result.get('data', {}).get('sessions', []) of the successful responses *)
SearchResponses == SeqsUpTo(SearchRecords, MaxLen)

KeyError(k) == [type |-> "KeyError", text |-> k]

SearchError == <<"Error", "searching", "user", "sessions:">>

(* The keys of a frequency table in the order .items() yields them. *)
Items(t) == [i \in 1..Len(t) |-> t[i].key]

(* The report, line by line: the summary reads patterns['avg_duration'],  *)
(* patterns['avg_pages'] and patterns['error_rate'], the lists read       *)
(* patterns['browsers'] and patterns['issue_types'], and each of the      *)
(* first five sessions is named by session['sessionId'].                  *)
FormatUserSessions(ss, p, ins) ==
    LET missing == {k \in {"avg_duration", "avg_pages", "error_rate",
                           "browsers", "issue_types"} : k \notin DOMAIN p}
        recent  == Take(ss, 5)
    IN  IF "avg_duration" \in missing
        THEN [raises |-> KeyError("'avg_duration'"), output |-> <<>>]
        ELSE IF missing # {}
        THEN [raises |-> KeyError(CHOOSE k \in missing : TRUE), output |-> <<>>]
        ELSE IF \E i \in 1..Len(recent) : "sessionId" \notin DOMAIN recent[i]
        THEN [raises |-> KeyError("'sessionId'"), output |-> <<>>]
        ELSE [raises |-> NoException,
              output |->
                  <<"User", "Session", "Analysis", "Summary", "Insights:">>
                  \o [i \in 1..Len(ins) |-> ins[i].rule]
                  \o <<"Browser", "Distribution:">>
                  \o Items(p.browsers)
                  \o (IF p.issue_types # <<>>
                      THEN <<"Issues", "Detected:">> \o Items(p.issue_types)
                      ELSE <<>>)
                  \o <<"Recent", "Sessions:">>
                  \o [i \in 1..Len(recent) |-> recent[i].sessionId]]

InitSearch ==
    /\ sessions \in SearchResponses
    /\ utcOffset = 0
    /\ variant = "v2"
    /\ pc = "idle"
    /\ run = 1
    /\ patterns = Nothing
    /\ insights = <<>>
    /\ first = [patterns |-> Nothing, insights |-> <<>>]
    /\ ToolIdle
    /\ DetectIdle

(* The search is answered with the sessions: the rest of the try block. *)
SearchReturns ==
    /\ tpc = "idle"
    /\ tool' = "search_user_sessions"
    /\ fetched' = 1
    /\ patterns' = analyze_session_patterns_v2(sessions)
    /\ insights' = generate_insights_v2(patterns')
    /\ LET f == FormatUserSessions(sessions, patterns', insights')
       IN  /\ raised' = f.raises
           /\ returned' = IF f.raises # NoException
                          THEN SearchError \o <<f.raises.text>>
                          ELSE f.output
    /\ tpc' = "returned"
    /\ UNCHANGED <<sessions, utcOffset, variant, pc, run, first>>
    /\ UNCHANGED <<args, calls, handle, http>>
    /\ UNCHANGED detectVars

(* The search raises: except Exception as e: return f"Error searching     *)
(* user sessions: {str(e)}"                                               *)
SearchRaises ==
    /\ tpc = "idle"
    /\ tool' = "search_user_sessions"
    /\ \E e \in (FetchExceptions \cup
                 {MethodResult(r).raises : r \in Responses}) \ {NoException} :
          /\ raised' = e
          /\ IF IsException(e)
             THEN returned' = SearchError \o <<e.text>> /\ tpc' = "returned"
             ELSE returned' = returned /\ tpc' = "raised"
    /\ UNCHANGED <<fetched, args, calls, handle, http>>
    /\ UNCHANGED <<analysisVars, detectVars>>

NextSearch ==
    \/ SearchReturns
    \/ SearchRaises

SpecSearch == InitSearch /\ [][NextSearch]_vars

-----------------------------------------------------------------------------
(* SessionAnalyzer.detect_problem_patterns, openreplay_session_analyzer.py *)
(* An event is a record like a session; d.get(k) of a missing key, None,  *)
(* is <<>> and a value v it finds is <<v>>.                               *)

GetOrNone(d, k) == IF k \in DOMAIN d THEN <<d[k]>> ELSE <<>>

(* [e for e in events if e.get('type') == t] *)
OfType(es, t) == SelectSeq(es, LAMBDA e : GetOrNone(e, "type") = <<t>>)

RageWindow == 3000  \* milliseconds
(* The loop over click_events[:-2] with 'time_diff <= 3000'. *)
RECURSIVE RageClicksFromInclusive(_, _)
RageClicksFromInclusive(click_events, i) ==
    IF i > Len(click_events) - 2 THEN <<>>
    ELSE LET click       == click_events[i]
             next_clicks == SubSeq(click_events, i + 1,
                                   Min2(i + 3, Len(click_events)))
             time_diff   == Get(next_clicks[Len(next_clicks)], "timestamp", 0)
                            - Get(click, "timestamp", 0)
         IN  (IF Len(next_clicks) >= 2 /\ time_diff <= RageWindow
              THEN <<[element     |-> GetOrNone(click, "element"),
                      timestamp   |-> GetOrNone(click, "timestamp"),
                      click_count |-> Len(next_clicks) + 1]>>
              ELSE <<>>)
             \o RageClicksFromInclusive(click_events, i + 1)

(* for i, click in enumerate(click_events[:-2]): next_clicks =            *)
(* click_events[i+1:i+4]; ... from the i-th click on.                     *)
RECURSIVE RageClicksFrom(_, _)
RageClicksFrom(click_events, i) ==
    IF i > Len(click_events) - 2 THEN <<>>
    ELSE LET click       == click_events[i]
             next_clicks == SubSeq(click_events, i + 1,
                                   Min2(i + 3, Len(click_events)))
             time_diff   == Get(next_clicks[Len(next_clicks)], "timestamp", 0)
                            - Get(click, "timestamp", 0)
         IN  (IF Len(next_clicks) >= 2 /\ time_diff < RageWindow
              THEN <<[element     |-> GetOrNone(click, "element"),
                      timestamp   |-> GetOrNone(click, "timestamp"),
                      click_count |-> Len(next_clicks) + 1]>>
              ELSE <<>>)
             \o RageClicksFrom(click_events, i + 1)

(* Form event types without blur. *)
FormTypesNoBlur == {"input", "focus"}

FormTypes == {"input", "focus", "blur"}

(* The loop over form_events: form_fields as the insertion-ordered table *)
(* of the interactions of each field that is truthy.                      *)
RECURSIVE FormFields(_, _)
FormFields(form_fields, form_events) ==
    IF form_events = <<>> THEN form_fields
    ELSE LET field == GetOrNone(Head(form_events), "element")
         IN  FormFields(IF Truthy(field) THEN Incr(form_fields, field[1])
                        ELSE form_fields,
                        Tail(form_events))

detect_problem_patterns(es) ==
    LET form_events   == SelectSeq(es, LAMBDA e :
                             /\ "type" \in DOMAIN e
                             /\ e["type"] \in FormTypes)
        form_fields   == FormFields(EmptyTable, form_events)
        submit_events == OfType(es, "submit")
    IN  [rage_clicks       |-> RageClicksFrom(OfType(es, "click"), 1),
         dead_clicks       |-> <<>>,
         form_abandonment  |-> IF form_fields # <<>> /\ submit_events = <<>>
                               THEN Items(form_fields)
                               ELSE <<>>,
         error_occurrences |-> OfType(es, "error")]

MaxClicks == 4      \* longest list of clicks

ClickEvents ==
    { [type |-> "click", element |-> "btn", timestamp |-> t] :
        t \in {0, 2999, 3000, 6000} }
    \cup { [type |-> "click"] }

FormEvents ==
    { [type |-> "focus", element |-> "email"],
      [type |-> "input", element |-> "email"],
      [type |-> "blur",  element |-> "name"],
      [type |-> "input", element |-> ""],
      [type |-> "input"],
      [type |-> "submit", element |-> "form"],
      [type |-> "click", element |-> "btn", timestamp |-> 0],
      [type |-> "error"],
      [element |-> "name"] }

(* Clicks with other events between them. *)
MixedEvents ==
    { <<[type |-> "click", timestamp |-> 0], [type |-> "input", element |-> "q"],
        [type |-> "click", timestamp |-> 1000], [type |-> "error"],
        [type |-> "click", timestamp |-> 2000]>>,
      <<[type |-> "click", timestamp |-> 0], [type |-> "submit"],
        [type |-> "click", timestamp |-> 1000],
        [type |-> "blur", element |-> "q"],
        [type |-> "click", timestamp |-> 5000],
        [type |-> "click", timestamp |-> 5500],
        [type |-> "click", timestamp |-> 6000]>> }

DetectInputs ==
    SeqsUpTo(ClickEvents, MaxClicks) \cup SeqsUpTo(FormEvents, MaxLen)
    \cup MixedEvents

InitDetect ==
    /\ sessions = <<>>
    /\ utcOffset = 0
    /\ variant = "none"
    /\ pc = "idle"
    /\ run = 1
    /\ patterns = Nothing
    /\ insights = <<>>
    /\ first = [patterns |-> Nothing, insights |-> <<>>]
    /\ ToolIdle
    /\ events \in DetectInputs
    /\ problems = Nothing

(* problems = SessionAnalyzer.detect_problem_patterns(session_data) *)
Detect ==
    /\ problems = Nothing
    /\ problems' = detect_problem_patterns(events)
    /\ UNCHANGED events
    /\ UNCHANGED <<analysisVars, toolVars>>

NextDetect == Detect

SpecDetect == InitDetect /\ [][NextDetect]_vars

-----------------------------------------------------------------------------
(* What the claims are stated over *)

Summarised == variant \in {"server", "working"} /\ sessions # <<>>

BounceRate == patterns.engagement_metrics.bounce_rate

AvgDuration == patterns.engagement_metrics.avg_duration

MobilePct == patterns.technical_metrics.mobile_percentage

ErrorRate ==
    IF variant = "server" THEN patterns.issue_analysis.error_rate
    ELSE patterns.engagement_metrics.error_rate

NumberOf(P(_)) == Cardinality({i \in 1..Len(sessions) : P(sessions[i])})

RECURSIVE TotalOf(_, _)
TotalOf(field, ss) ==
    IF ss = <<>> THEN 0
    ELSE Get(ss[Len(ss)], field, 0) + TotalOf(field, SubSeq(ss, 1, Len(ss) - 1))

(* q = a / b, whatever terms q is in *)
RatIs(q, a, b) == q.num * b = a * q.den

InPercentRange(q) == q.den > 0 /\ 0 <= q.num /\ q.num <= 100 * q.den

(* C1: for every non-empty session list the summary's bounce_rate,        *)
(* error_rate and mobile_percentage all lie between 0 and 100.            *)
C1_RatesWithinPercentRange ==
    Summarised =>
        /\ InPercentRange(BounceRate)
        /\ InPercentRange(ErrorRate)
        /\ InPercentRange(MobilePct)

C1_Witness ==
    /\ Summarised
    /\ Len(sessions) >= 2
    /\ RatIs(MobilePct, 100, 1)
    /\ RatIs(BounceRate, 100, 1)
    /\ RatIs(ErrorRate, 100, 1)

C2_Example ==
    << [duration |-> 0, pagesCount |-> 1, errorsCount |-> 0],
       [duration |-> 600000, pagesCount |-> 1, errorsCount |-> 1] >>

(* C2: for every non-empty session list avg_duration is the sum of the    *)
(* durations over n, bounce_rate is 100 times the number of sessions with *)
(* pagesCount <= 1 over n, error_rate is 100 times the number of sessions *)
(* with errorsCount > 0 over n and mobile_percentage is 100 times         *)
(* devices['Mobile'] over n (0 without a 'Mobile' bucket), a missing      *)
(* count being 0; the sessions (0 ms, 1 page, 0 errors) and (600000 ms,   *)
(* 1 page, 1 error) give 300000, 100 and 50.                              *)
C2_DerivedMetrics ==
    Summarised =>
        LET n == Len(sessions)
        IN  /\ RatIs(AvgDuration, TotalOf("duration", sessions), n)
            /\ RatIs(BounceRate,
                     100 * NumberOf(LAMBDA s : Get(s, "pagesCount", 0) <= 1), n)
            /\ RatIs(ErrorRate,
                     100 * NumberOf(LAMBDA s : Get(s, "errorsCount", 0) > 0), n)
            /\ RatIs(MobilePct,
                     100 * TableGet(patterns.technical_metrics.devices, "Mobile", 0),
                     n)
            /\ ("Mobile" \notin Keys(patterns.technical_metrics.devices)
                    => MobilePct = Zero)
            /\ (sessions = C2_Example =>
                    /\ AvgDuration = RatOfInt(300000)
                    /\ BounceRate = RatOfInt(100)
                    /\ ErrorRate = RatOfInt(50))

C2_Witness ==
    /\ Summarised
    /\ sessions = C2_Example
    /\ AvgDuration = RatOfInt(300000)
    /\ BounceRate = RatOfInt(100)
    /\ ErrorRate = RatOfInt(50)

ZeroSummary(p) ==
    /\ "total_sessions" \in DOMAIN p
    /\ p.total_sessions = 0
    /\ p.engagement_metrics.avg_duration = Zero
    /\ p.engagement_metrics.avg_pages = Zero
    /\ p.engagement_metrics.avg_events = Zero
    /\ p.engagement_metrics.bounce_rate = Zero
    /\ p.technical_metrics.mobile_percentage = Zero
    /\ p.technical_metrics.browsers = <<>>
    /\ p.technical_metrics.devices = <<>>
    /\ p.technical_metrics.platforms = <<>>
    /\ p.user_metrics.geographic_distribution = <<>>

(* C3: analyze_session_patterns on the empty list does not raise and      *)
(* returns the 'no sessions' sentinel or a summary whose scalar fields    *)
(* are 0 and whose frequency tables are empty.                            *)
C3_EmptyListGivesSentinel ==
    (variant # "none" /\ sessions = <<>>) =>
        /\ "raised" \notin DOMAIN patterns
        /\ patterns = NoSessions \/ ZeroSummary(patterns)

C3_Witness ==
    /\ variant = "v2"
    /\ sessions = <<>>
    /\ patterns = NoSessions

Browsers == patterns.technical_metrics.browsers
Devices == patterns.technical_metrics.devices
Platforms == patterns.technical_metrics.platforms
Countries == patterns.user_metrics.geographic_distribution

Lacks(field) == NumberOf(LAMBDA s : field \notin DOMAIN s)

(* C5: for every session list the values of the browser frequency table   *)
(* sum to the session count, a session without a browser field being      *)
(* counted under 'Unknown'; so do the values of the device, platform and  *)
(* country tables.                                                        *)
C5_TablesSumToSessionCount ==
    Summarised =>
        /\ SumValues(Browsers) = Len(sessions)
        /\ SumValues(Devices) = Len(sessions)
        /\ SumValues(Platforms) = Len(sessions)
        /\ SumValues(Countries) = Len(sessions)
        /\ TableGet(Browsers, "Unknown", 0) >= Lacks("userBrowser")

C5_Witness ==
    /\ Summarised
    /\ Len(sessions) = 3
    /\ Lacks("userBrowser") = 1
    /\ TableGet(Browsers, "Unknown", 0) = 1
    /\ TableGet(Browsers, "Chrome", 0) = 2

(* C6 as claimed: in each of the browser, device, platform and country    *)
(* tables a record that lacks the field is counted under 'Unknown', and   *)
(* 'Unknown' is non-zero only when some record lacks the field.           *)
C6_Original ==
    Summarised =>
        /\ \A f \in {"userBrowser", "userDevice", "platform", "userCountry"} :
              LET t == CASE f = "userBrowser" -> Browsers
                         [] f = "userDevice" -> Devices
                         [] f = "platform" -> Platforms
                         [] f = "userCountry" -> Countries
              IN  /\ TableGet(t, "Unknown", 0) >= Lacks(f)
                  /\ TableGet(t, "Unknown", 0) > 0 => Lacks(f) > 0

(* C6, amended: a record that lacks the browser or the country is counted *)
(* under 'Unknown' of that table, whose count is the number of records    *)
(* that lack the field or carry the value 'Unknown'; a record that lacks  *)
(* the device class (or carries an empty one) is counted under 'Desktop', *)
(* and a record that lacks the platform under 'web'.                      *)
C6_DefaultBuckets ==
    Summarised =>
        /\ TableGet(Browsers, "Unknown", 0) =
              Lacks("userBrowser")
              + NumberOf(LAMBDA s : "userBrowser" \in DOMAIN s
                                    /\ s["userBrowser"] = "Unknown")
        /\ TableGet(Countries, "Unknown", 0) =
              Lacks("userCountry")
              + NumberOf(LAMBDA s : "userCountry" \in DOMAIN s
                                    /\ s["userCountry"] = "Unknown")
        /\ TableGet(Devices, "Desktop", 0) =
              Lacks("userDevice")
              + NumberOf(LAMBDA s : "userDevice" \in DOMAIN s
                                    /\ s["userDevice"] \in {"", "Desktop"})
        /\ TableGet(Devices, "Unknown", 0) =
              NumberOf(LAMBDA s : "userDevice" \in DOMAIN s
                                  /\ s["userDevice"] = "Unknown")
        /\ TableGet(Platforms, "web", 0) =
              Lacks("platform")
              + NumberOf(LAMBDA s : "platform" \in DOMAIN s
                                    /\ s["platform"] = "web")
        /\ TableGet(Platforms, "Unknown", 0) =
              NumberOf(LAMBDA s : "platform" \in DOMAIN s
                                  /\ s["platform"] = "Unknown")

C6_Witness ==
    /\ Summarised
    /\ Lacks("userDevice") = 1
    /\ Lacks("platform") = 2
    /\ Lacks("userBrowser") = 1
    /\ TableGet(Devices, "Desktop", 0) = 2
    /\ TableGet(Devices, "Unknown", 0) = 0
    /\ TableGet(Platforms, "web", 0) = 2
    /\ TableGet(Browsers, "Unknown", 0) = 2

IssueTags == {"rage_click", "dead_click", "js_exception"}

Carries(s, tag) ==
    \E j \in 1..Len(Get(s, "issueTypes", <<>>)) : s["issueTypes"][j] = tag

(* C7: an issue type is in critical_issues exactly when its count in the  *)
(* issue-type table is strictly more than 10% of the session count, and a *)
(* critical issue's count is the number of analyzed sessions that carry   *)
(* the tag.                                                               *)
C7_CriticalIssues ==
    (variant = "server" /\ sessions # <<>>) =>
        \A tag \in IssueTags :
            LET critical == patterns.issue_analysis.critical_issues
                count    == TableGet(patterns.issue_analysis.issue_types, tag, 0)
            IN  /\ tag \in Keys(critical) <=> 10 * count > Len(sessions)
                /\ tag \in Keys(critical) =>
                      TableGet(critical, tag, 0)
                          = NumberOf(LAMBDA s : Carries(s, tag))

RECURSIVE Occurrences(_, _)
Occurrences(tag, ss) ==
    IF ss = <<>> THEN 0
    ELSE Cardinality({j \in 1..Len(Get(Head(ss), "issueTypes", <<>>)) :
                         Head(ss)["issueTypes"][j] = tag})
         + Occurrences(tag, Tail(ss))

(* The part of C7 that the code meets: membership in critical_issues is  *)
(* the table count exceeding 10% of the sessions, the count being the     *)
(* number of times the tag occurs in the sessions' issueTypes lists.      *)
C7_CriticalByOccurrences ==
    (variant = "server" /\ sessions # <<>>) =>
        \A tag \in IssueTags :
            LET critical == patterns.issue_analysis.critical_issues
            IN  /\ tag \in Keys(critical) <=>
                      10 * Occurrences(tag, sessions) > Len(sessions)
                /\ tag \in Keys(critical) =>
                      TableGet(critical, tag, 0) = Occurrences(tag, sessions)

CountryOf(s) == Get(s, "userCountry", "Unknown")

DistinctCountries == {CountryOf(sessions[i]) : i \in 1..Len(sessions)}

CountryCount(c) == NumberOf(LAMBDA s : CountryOf(s) = c)

FirstSeen(c) ==
    CHOOSE i \in 1..Len(sessions) :
        /\ CountryOf(sessions[i]) = c
        /\ \A j \in 1..(i - 1) : CountryOf(sessions[j]) # c

CountryBefore(c, d) ==
    \/ CountryCount(c) > CountryCount(d)
    \/ CountryCount(c) = CountryCount(d) /\ FirstSeen(c) < FirstSeen(d)

HourCount(h) ==
    NumberOf(LAMBDA s : HasStartTs(s) /\ HourOf(s["startTs"]) = h)

HourBefore(g, h) ==
    \/ HourCount(g) > HourCount(h)
    \/ HourCount(g) = HourCount(h) /\ g < h

(* C8: top_countries and peak_hours are the country table and the hour    *)
(* histogram sorted by count descending, ties in first-encountered order  *)
(* (for hours: ascending hour), cut to 5 and 3 entries; top_countries has *)
(* min(5, number of distinct countries) entries.                          *)
C8_StableRankings ==
    Summarised =>
        LET top  == patterns.user_metrics.top_countries
            peak == patterns.time_patterns.peak_hours
        IN  /\ Len(top) = Min2(5, Cardinality(DistinctCountries))
            /\ \A i \in 1..Len(top) :
                  /\ top[i].key \in DistinctCountries
                  /\ top[i].n = CountryCount(top[i].key)
                  /\ \A j \in (i + 1)..Len(top) :
                        CountryBefore(top[i].key, top[j].key)
                  /\ \A c \in DistinctCountries \ Keys(top) :
                        CountryBefore(top[i].key, c)
            /\ Len(peak) = 3
            /\ \A i \in 1..Len(peak) :
                  /\ peak[i].key \in 0..23
                  /\ peak[i].n = HourCount(peak[i].key)
                  /\ \A j \in (i + 1)..Len(peak) :
                        HourBefore(peak[i].key, peak[j].key)
                  /\ \A h \in (0..23) \ Keys(peak) :
                        HourBefore(peak[i].key, h)

C8_Witness ==
    /\ variant = "server"
    /\ Cardinality(DistinctCountries) = 6
    /\ Len(patterns.user_metrics.top_countries) = 5
    /\ patterns.user_metrics.top_countries[1] = [key |-> "US", n |-> 2]
    /\ patterns.user_metrics.top_countries[2] = [key |-> "IN", n |-> 2]
    /\ patterns.user_metrics.top_countries[5] = [key |-> "JP", n |-> 1]
    /\ patterns.time_patterns.peak_hours[1].key = 0
    /\ patterns.time_patterns.peak_hours[2].key = 1
    /\ patterns.time_patterns.peak_hours[1].n = 4
    /\ patterns.time_patterns.peak_hours[2].n = 4

ClaimedGroup(rule) ==
    CASE rule \in {"very_short_sessions", "long_engagement",
                   "high_bounce_rate", "excellent_bounce_rate"} -> 1
      [] rule \in {"global_reach", "concentrated_user_base"} -> 2
      [] rule \in {"mobile_first", "desktop_dominated"} -> 3
      [] rule \in {"critical_errors", "errors_need_attention",
                   "errors_monitor", "no_errors", "critical_issue"} -> 4
      [] rule = "peak_usage" -> 5
      [] OTHER -> 0

(* C10 as claimed: the insights come in the order engagement (duration,   *)
(* bounce), geography, technical (mobile/desktop), issues (error rate,    *)
(* critical issues), time of day.                                         *)
C10_Original ==
    (pc = "done" /\ variant \in {"server", "working"}) =>
        \A i, j \in 1..Len(insights) :
            (/\ i < j
             /\ ClaimedGroup(insights[i].rule) # 0
             /\ ClaimedGroup(insights[j].rule) # 0)
            => ClaimedGroup(insights[i].rule) <= ClaimedGroup(insights[j].rule)

Duration == {"very_short_sessions", "long_engagement"}
Bounce == {"high_bounce_rate", "excellent_bounce_rate"}
ErrorRules == {"critical_errors", "errors_need_attention", "errors_monitor",
               "no_errors"}

ServerPlace(rule) ==
    CASE rule \in {"high_user_engagement", "low_return_rate"} -> 1
      [] rule \in {"global_reach", "concentrated_user_base"} -> 2
      [] rule \in {"mobile_first", "desktop_dominated"} -> 3
      [] rule \in Duration -> 4
      [] rule \in Bounce -> 5
      [] rule \in ErrorRules -> 6
      [] rule = "critical_issue" -> 7
      [] rule = "peak_usage" -> 8

WorkingPlace(rule) ==
    CASE rule \in Duration -> 1
      [] rule \in Bounce -> 2
      [] rule \in ErrorRules -> 3
      [] rule \in {"mobile_first", "desktop_dominated"} -> 4
      [] rule = "browser_dominates" -> 5
      [] rule = "peak_usage" -> 6

(* C10, amended: the insights come in a fixed order that differs by       *)
(* variant.  Server: sessions per user, geography, technical              *)
(* (mobile/desktop), engagement (duration, then bounce), issues (error    *)
(* rate, then critical issues), time of day.  Working: engagement         *)
(* (duration, then bounce), error rate, technical (mobile/desktop, then   *)
(* browser), time of day.  No insight of a later place precedes one of an *)
(* earlier place.                                                         *)
C10_InsightOrderByVariant ==
    pc = "done" =>
        /\ variant = "server" =>
              \A i, j \in 1..Len(insights) :
                  i < j => ServerPlace(insights[i].rule)
                              <= ServerPlace(insights[j].rule)
        /\ variant = "working" =>
              \A i, j \in 1..Len(insights) :
                  i < j => WorkingPlace(insights[i].rule)
                              <= WorkingPlace(insights[j].rule)

C10_Witness ==
    /\ pc = "done"
    /\ variant = "server"
    /\ Len(insights) = 9
    /\ insights[1].rule = "high_user_engagement"
    /\ insights[2].rule = "concentrated_user_base"
    /\ insights[3].rule = "desktop_dominated"
    /\ insights[4].rule = "very_short_sessions"
    /\ insights[5].rule = "high_bounce_rate"
    /\ insights[6].rule = "errors_need_attention"
    /\ insights[7].rule = "critical_issue"
    /\ insights[8].rule = "critical_issue"
    /\ insights[9].rule = "peak_usage"

(* A metric of the summary handed to generate_insights, 0 when the summary *)
(* lacks the section or the field.                                         *)
Metric(section, field) == Get(Get(patterns, section, EmptyDict), field, Zero)

ErrorRateOr0 ==
    IF variant = "server" THEN Metric("issue_analysis", "error_rate")
    ELSE Metric("engagement_metrics", "error_rate")

Emitted(rules) == SelectSeq(insights, LAMBDA i : i.rule \in rules)

RuleNames(s) == [i \in 1..Len(s) |-> s[i].rule]

ClaimedErrorNote(er) ==
    IF RatLess(RatOfInt(50), er) THEN "critical_errors"
    ELSE IF RatLess(RatOfInt(20), er) THEN "errors_need_attention"
    ELSE IF RatLess(Zero, er) THEN "errors_monitor"
    ELSE "no_errors"

(* C11 as claimed: for every summary generate_insights (server and        *)
(* working) emits exactly one error-rate insight: 'critical' when         *)
(* error_rate > 50, 'needs attention' when 20 < error_rate <= 50,         *)
(* 'monitor trends' when 0 < error_rate <= 20 and 'no errors' when        *)
(* error_rate = 0.                                                        *)
C11_Original ==
    (pc = "done" /\ variant \in {"server", "working"}) =>
        RuleNames(Emitted(ErrorRules)) = <<ClaimedErrorNote(ErrorRateOr0)>>

(* C11, amended: the working variant emits exactly one error-rate         *)
(* insight: 'critical' when error_rate > 50, 'needs attention' when       *)
(* 20 < error_rate <= 50, 'monitor trends' when 0 < error_rate <= 20 and  *)
(* 'no errors' when error_rate = 0.  The server variant emits the same    *)
(* one insight when error_rate > 0 and no error-rate insight when         *)
(* error_rate = 0.                                                        *)
C11_ErrorRateInsight ==
    pc = "done" =>
        /\ variant = "working" =>
              RuleNames(Emitted(ErrorRules)) = <<ClaimedErrorNote(ErrorRateOr0)>>
        /\ variant = "server" =>
              RuleNames(Emitted(ErrorRules)) =
                  IF ErrorRateOr0 = Zero THEN <<>>
                  ELSE <<ClaimedErrorNote(ErrorRateOr0)>>

C11_Witness ==
    /\ pc = "done"
    /\ variant = "server"
    /\ Len(sessions) = 10
    /\ RatIs(ErrorRateOr0, 20, 1)
    /\ RuleNames(Emitted(ErrorRules)) = <<"errors_monitor">>

MobileRules == {"mobile_first", "desktop_dominated"}

(* C12: the threshold comparisons of generate_insights are strict: a      *)
(* bounce rate of exactly 70 emits no 'high bounce rate' warning and      *)
(* exactly 30 no 'excellent bounce rate' note; an average duration of     *)
(* exactly 1 minute or exactly 10 minutes emits no duration insight; a    *)
(* mobile percentage of exactly 50 or exactly 20 emits no mobile/desktop  *)
(* note; and the two insights of one dimension are never both emitted.    *)
C12_StrictThresholds ==
    (pc = "done" /\ variant \in {"server", "working"}) =>
        LET bounce == Metric("engagement_metrics", "bounce_rate")
            avg    == Metric("engagement_metrics", "avg_duration")
            mobile == Metric("technical_metrics", "mobile_percentage")
        IN  /\ RatIs(bounce, 70, 1) =>
                  \A i \in 1..Len(insights) : insights[i].rule # "high_bounce_rate"
            /\ RatIs(bounce, 30, 1) =>
                  \A i \in 1..Len(insights) :
                      insights[i].rule # "excellent_bounce_rate"
            /\ (RatIs(avg, 60000, 1) \/ RatIs(avg, 600000, 1)) =>
                  Emitted(Duration) = <<>>
            /\ (RatIs(mobile, 50, 1) \/ RatIs(mobile, 20, 1)) =>
                  Emitted(MobileRules) = <<>>
            /\ Len(Emitted(Duration)) <= 1
            /\ Len(Emitted(Bounce)) <= 1
            /\ Len(Emitted(MobileRules)) <= 1

C12_Witness ==
    /\ pc = "done"
    /\ variant = "server"
    /\ Len(sessions) = 10
    /\ RatIs(Metric("technical_metrics", "mobile_percentage"), 50, 1)
    /\ RatIs(Metric("engagement_metrics", "bounce_rate"), 50, 1)
    /\ Emitted(MobileRules) = <<>>
    /\ Emitted(Bounce) = <<>>

(* The other thresholds of C12 as they are met by the lists of the model. *)
C12_AtBounce70 ==
    /\ pc = "done"
    /\ RatIs(Metric("engagement_metrics", "bounce_rate"), 70, 1)
    /\ Emitted(Bounce) = <<>>

C12_AtBounce30 ==
    /\ pc = "done"
    /\ RatIs(Metric("engagement_metrics", "bounce_rate"), 30, 1)
    /\ Emitted(Bounce) = <<>>

C12_AtOneMinute ==
    /\ pc = "done"
    /\ RatIs(Metric("engagement_metrics", "avg_duration"), 60000, 1)
    /\ Emitted(Duration) = <<>>

C12_AtTenMinutes ==
    /\ pc = "done"
    /\ RatIs(Metric("engagement_metrics", "avg_duration"), 600000, 1)
    /\ Emitted(Duration) = <<>>

C12_AtMobile20 ==
    /\ pc = "done"
    /\ RatIs(Metric("technical_metrics", "mobile_percentage"), 20, 1)
    /\ Emitted(MobileRules) = <<>>

Missing(section, field) ==
    section \notin DOMAIN patterns \/ field \notin DOMAIN patterns[section]

ErrorSection ==
    IF variant = "server" THEN "issue_analysis" ELSE "engagement_metrics"

UserRules == {"high_user_engagement", "low_return_rate"}
GeographyRules == {"global_reach", "concentrated_user_base"}

C14_OneGeographyInsight ==
    (pc = "done" /\ variant = "server" /\ sessions # <<>>) =>
        LET geo == Emitted(GeographyRules)
        IN  /\ Len(geo) = 1
            /\ IF Cardinality(DistinctCountries) > 10
               THEN /\ geo[1].rule = "global_reach"
                    /\ geo[1].count = Cardinality(DistinctCountries)
               ELSE /\ geo[1].rule = "concentrated_user_base"
                    /\ geo[1].name \in DistinctCountries
                    /\ geo[1].count = CountryCount(geo[1].name)
                    /\ \A c \in DistinctCountries :
                          CountryCount(c) <= geo[1].count

C14_Witness ==
    /\ pc = "done"
    /\ variant = "server"
    /\ Cardinality(DistinctCountries) = 11
    /\ Len(sessions) = 12
    /\ Emitted(GeographyRules) = <<Ins("global_reach", "", 0, 11)>>

(* Ten distinct countries, the largest number that is not global reach. *)
C14_AtTenCountries ==
    /\ pc = "done"
    /\ variant = "server"
    /\ Cardinality(DistinctCountries) = 10
    /\ Len(sessions) = 12
    /\ Emitted(GeographyRules) = <<Ins("concentrated_user_base", "US", 0, 3)>>

CriticalIssues == patterns.issue_analysis.critical_issues

(* C15: when critical_issues is non-empty generate_insights emits one     *)
(* note for each of the top-2 critical issue types, the (at most two)     *)
(* critical issue types with the highest counts, each naming the issue    *)
(* and its count.                                                         *)
C15_TopTwoCritical ==
    (pc = "done" /\ variant = "server" /\ sessions # <<>>
        /\ CriticalIssues # <<>>) =>
        LET notes == Emitted({"critical_issue"})
            noted == {notes[i].name : i \in 1..Len(notes)}
        IN  /\ Len(notes) = Min2(2, Len(CriticalIssues))
            /\ \A i \in 1..Len(notes) :
                  \E k \in 1..Len(CriticalIssues) :
                      /\ notes[i].name = TitleOf(CriticalIssues[k].key)
                      /\ notes[i].count = CriticalIssues[k].n
                      /\ \A j \in 1..Len(CriticalIssues) :
                            TitleOf(CriticalIssues[j].key) \notin noted
                                => CriticalIssues[j].n <= CriticalIssues[k].n

(* What the code does for C15: the notes are for the first two critical  *)
(* issue types in the order the loop first met them, whatever their       *)
(* counts.                                                                *)
C15_FirstTwoCritical ==
    (pc = "done" /\ variant = "server" /\ sessions # <<>>) =>
        LET notes == Emitted({"critical_issue"})
        IN  /\ Len(notes) = Min2(2, Len(CriticalIssues))
            /\ \A i \in 1..Len(notes) :
                  /\ notes[i].name = TitleOf(CriticalIssues[i].key)
                  /\ notes[i].count = CriticalIssues[i].n

(* C16: every scalar field of the summary returned by                     *)
(* analyze_session_patterns is a finite number for every input list,      *)
(* including lists in which no session has a start timestamp.             *)
C16_ScalarsFinite ==
    (variant = "server" /\ sessions # <<>>) =>
        /\ patterns.user_metrics.avg_sessions_per_user.den > 0
        /\ patterns.technical_metrics.mobile_percentage.den > 0
        /\ patterns.engagement_metrics.avg_duration.den > 0
        /\ patterns.engagement_metrics.avg_pages.den > 0
        /\ patterns.engagement_metrics.avg_events.den > 0
        /\ patterns.engagement_metrics.bounce_rate.den > 0
        /\ patterns.issue_analysis.error_rate.den > 0
        /\ patterns.time_patterns.date_range.start.finite

(* What the code does for C16: every quotient is finite, and              *)
(* date_range.start is finite exactly when some session carries a start   *)
(* timestamp.                                                             *)
C16_FiniteButDateRangeStart ==
    (variant = "server" /\ sessions # <<>>) =>
        /\ patterns.user_metrics.avg_sessions_per_user.den > 0
        /\ patterns.technical_metrics.mobile_percentage.den > 0
        /\ patterns.engagement_metrics.avg_duration.den > 0
        /\ patterns.engagement_metrics.avg_pages.den > 0
        /\ patterns.engagement_metrics.avg_events.den > 0
        /\ patterns.engagement_metrics.bounce_rate.den > 0
        /\ patterns.issue_analysis.error_rate.den > 0
        /\ patterns.time_patterns.date_range.start.finite
              <=> \E i \in 1..Len(sessions) : "startTs" \in DOMAIN sessions[i]

CountFields == {"duration", "pagesCount", "eventsCount", "errorsCount"}

(* The record with 0 for each count it lacks and no tags if it lacks the *)
(* tag list.                                                              *)
Fill(s) ==
    [f \in DOMAIN s \cup CountFields \cup {"issueTypes"} |->
        IF f \in DOMAIN s THEN s[f]
        ELSE IF f = "issueTypes" THEN <<>> ELSE 0]

Filled == [i \in 1..Len(sessions) |-> Fill(sessions[i])]

(* C17: analyze_session_patterns does not fail on records that lack any   *)
(* subset of fields: a record missing duration, pagesCount, eventsCount   *)
(* or errorsCount is aggregated exactly as if that field were 0, and a    *)
(* record missing issueTypes as if it had no tags; the summary of the     *)
(* list is the summary of the list with those fields filled in.           *)
C17_MissingCountsAreZero ==
    pc = "analyzed" =>
        /\ variant = "server" => patterns = analyze_session_patterns(Filled)
        /\ variant = "working" =>
              patterns = analyze_session_patterns_working(Filled)
        /\ variant = "v2" => patterns = analyze_session_patterns_v2(Filled)

C17_Witness ==
    /\ pc = "analyzed"
    /\ variant = "v2"
    /\ Len(sessions) = 3
    /\ sessions[1] = EmptyDict
    /\ sessions[2] = [pagesCount |-> 0, errorsCount |-> 3, userDevice |-> "Mobile"]
    /\ sessions[3] = [duration |-> 60000, pagesCount |-> 2]
    /\ patterns.avg_duration = RatOfInt(20000)
    /\ patterns.avg_pages = Rat(2, 3)
    /\ patterns.avg_events = Zero
    /\ patterns.sessions_with_errors = 1
    /\ patterns.issue_types = <<>>

RECURSIVE SumSeq(_)
SumSeq(h) == IF h = <<>> THEN 0 ELSE Head(h) + SumSeq(Tail(h))

Histogram == patterns.time_patterns.hourly_distribution

(* The local hour of day of a start timestamp in milliseconds. *)
LocalHour(ts) == ((ts \div Hour) + utcOffset) % 24

(* C18 as claimed: the hour-of-day histogram has 24 buckets, each session *)
(* with a start timestamp present increments exactly one bucket and       *)
(* sessions without one increment none, so the histogram's sum is the     *)
(* number of sessions whose start timestamp is present.                   *)
C18_Original ==
    Summarised =>
        /\ Len(Histogram) = 24
        /\ SumSeq(Histogram) = NumberOf(LAMBDA s : "startTs" \in DOMAIN s)

(* C18, amended: the histogram has 24 buckets; each session whose start   *)
(* timestamp is present and not 0 increments exactly the bucket of its    *)
(* local hour of day, and sessions without a start timestamp or with the  *)
(* timestamp 0 increment none, so the histogram's sum is the number of    *)
(* sessions whose start timestamp is present and not 0.                   *)
C18_HistogramCountsNonZeroStarts ==
    Summarised =>
        /\ Len(Histogram) = 24
        /\ \A h \in 0..23 :
              Histogram[h + 1] =
                  NumberOf(LAMBDA s : /\ "startTs" \in DOMAIN s
                                      /\ s["startTs"] # 0
                                      /\ LocalHour(s["startTs"]) = h)
        /\ SumSeq(Histogram) =
              NumberOf(LAMBDA s : "startTs" \in DOMAIN s /\ s["startTs"] # 0)

C18_Witness ==
    /\ Summarised
    /\ utcOffset = 5
    /\ sessions = <<[startTs |-> 0], [startTs |-> 25 * Hour], EmptyDict>>
    /\ Histogram[7] = 1
    /\ SumSeq(Histogram) = 1

C20_Original ==
    raised # NoException =>
        /\ tpc = "returned"
        /\ Head(returned) = "Error"
        /\ returned[Len(returned)] = raised.text

(* C20, amended: no MCP tool function propagates an exception that        *)
(* derives from Exception: whenever its argument parsing, a client call   *)
(* or a formatting step raises one, the tool returns a string that begins *)
(* with 'Error', names what the tool was doing and ends with the          *)
(* exception text.  An exception that does not derive from Exception      *)
(* (asyncio.CancelledError when the call is cancelled at an await) is not *)
(* caught and propagates.                                                 *)
C20_ExceptionsBecomeErrorStrings ==
    /\ (raised # NoException /\ raised.type # "CancelledError") =>
          /\ tpc = "returned"
          /\ Head(returned) = "Error"
          /\ returned = ToolTable[tool].error \o <<raised.text>>
    /\ tpc = "raised" => raised.type = "CancelledError"
    /\ (tpc = "returned" /\ raised = NoException) =>
          returned \in {<<"output">>, InvalidAction}

C20_Witness ==
    /\ tool = "get_user_analysis"
    /\ tpc = "returned"
    /\ fetched = 1
    /\ raised = [type |-> "HTTPStatusError", text |-> "Client error 404 Not Found"]
    /\ returned = <<"Error", "analyzing", "user:", "Client error 404 Not Found">>

(* C24: the peak-hour insight names the single busiest hour and its       *)
(* session count, and is emitted only when at least one analyzed session  *)
(* contributed a start timestamp to the histogram; a summary built from   *)
(* sessions with no start timestamps yields no peak-hour note.            *)
C24_PeakOnlyWithTimestamps ==
    (pc = "done" /\ Summarised) =>
        LET peak == Emitted({"peak_usage"})
        IN  IF SumSeq(Histogram) = 0 THEN peak = <<>>
            ELSE /\ Len(peak) = 1
                 /\ peak[1].value \in 0..23
                 /\ peak[1].count = Histogram[peak[1].value + 1]
                 /\ \A h \in 1..24 : Histogram[h] <= peak[1].count

(* What the code does for C24: peak_hours is the first three entries of   *)
(* the sorted 24-bucket histogram and so is never empty; the note is      *)
(* always emitted, and for a histogram of zeros it names hour 0 with 0    *)
(* sessions.                                                              *)
C24_PeakAlwaysEmitted ==
    (pc = "done" /\ Summarised) =>
        LET peak == Emitted({"peak_usage"})
        IN  /\ Len(peak) = 1
            /\ peak[1].value \in 0..23
            /\ peak[1].count = Histogram[peak[1].value + 1]
            /\ \A h \in 1..24 : Histogram[h] <= peak[1].count
            /\ SumSeq(Histogram) = 0 => peak[1].value = 0 /\ peak[1].count = 0

Users == {UserOf(sessions[i]) : i \in 1..Len(sessions)}

(* C25: in the summary of the server variant avg_sessions_per_user is the *)
(* session count divided by unique_users, the number of distinct user     *)
(* identifiers among the sessions, so the 'high user engagement' insight  *)
(* fires only when users really average more than 3 sessions.             *)
C25_AvgSessionsPerUser ==
    (variant = "server" /\ sessions # <<>>) =>
        /\ patterns.user_metrics.unique_users = Cardinality(Users)
        /\ RatIs(patterns.user_metrics.avg_sessions_per_user,
                 Len(sessions), Cardinality(Users))
        /\ (pc = "done" /\ Emitted({"high_user_engagement"}) # <<>>) =>
              Len(sessions) > 3 * Cardinality(Users)

(* What the code does for C25: unique_users is the number of distinct     *)
(* user identifiers, and avg_sessions_per_user is the session count       *)
(* itself.                                                                *)
C25_AvgIsSessionCount ==
    (variant = "server" /\ sessions # <<>>) =>
        /\ patterns.user_metrics.unique_users = Cardinality(Users)
        /\ patterns.user_metrics.avg_sessions_per_user = RatOfInt(Len(sessions))

-----------------------------------------------------------------------------
(* The client methods and the tools that await them *)

Success == 200..299

(* The method invocation c has its response. *)
Answered(c) == c.state # "awaiting" /\ c.status # 0

(* The values the JSON bodies of the responses with this status parse to. *)
ParsedBodies(status) ==
    { json(r.body).value :
        r \in {q \in Responses : /\ q.status = status
                                 /\ json(q.body).raises = NoException} }

(* C21 as claimed: each OpenReplayClient method issues exactly one HTTP   *)
(* request per invocation; when the response is non-2xx the method raises *)
(* and issues no further request, and when it is 2xx the method returns   *)
(* the parsed JSON body.                                                  *)
C21_Original ==
    \A i \in DOMAIN calls :
        /\ calls[i].sent = 1
        /\ Answered(calls[i]) =>
              IF calls[i].status \in Success
              THEN /\ calls[i].state = "returned"
                   /\ calls[i].value \in ParsedBodies(calls[i].status)
              ELSE calls[i].state = "raised"

(* C21, amended: each OpenReplayClient method issues exactly one HTTP     *)
(* request per invocation; when the response is non-2xx the method raises *)
(* and issues no further request (no retry, no backoff), and when it is   *)
(* 2xx the method returns the parsed JSON body if the body is JSON and    *)
(* raises, again without a further request, if it is not.                 *)
C21_OneRequestPerInvocation ==
    \A i \in DOMAIN calls :
        /\ calls[i].sent = 1
        /\ Answered(calls[i]) =>
              IF calls[i].status \in Success
              THEN \/ /\ calls[i].state = "returned"
                      /\ calls[i].value \in ParsedBodies(calls[i].status)
                   \/ /\ calls[i].state = "raised"
                      /\ raised.type = "JSONDecodeError"
                      /\ i = Len(calls)
              ELSE /\ calls[i].state = "raised"
                   /\ raised.type = "HTTPStatusError"
                   /\ i = Len(calls)

C21_Witness ==
    /\ tool = "get_error_details"
    /\ Len(calls) = 2
    /\ calls[1].method = "get_error_details"
    /\ calls[1].state = "returned"
    /\ calls[1].status = 200
    /\ calls[1].value = [data |-> <<>>]
    /\ calls[2].method = "get_error_sessions"
    /\ calls[2].state = "raised"
    /\ calls[2].status = 500
    /\ calls[2].sent = 1
    /\ raised.type = "HTTPStatusError"

TwoFetchTools ==
    {"analyze_session_replay", "get_error_details", "get_user_analysis",
     "analyze_user_sessions"}

(* The call has reached its aggregation or formatting. *)
FormattingStarted == returned = <<"output">> \/ raised \in FormatExceptions

AFetchFailed == \E i \in DOMAIN calls : calls[i].state = "raised"

ParallelTools ==
    {"analyze_session_replay", "get_error_details", "get_user_analysis"}

(* C23: analyze_session_replay gets the replay data and the events in     *)
(* parallel: the get_session_events request is issued before the          *)
(* get_session_replay request has completed, so both requests are         *)
(* outstanding at the same time; likewise the two fetches of              *)
(* get_error_details and get_user_analysis.                               *)
C23_BothOutstanding ==
    (tool \in ParallelTools /\ Len(calls) = 2) => calls[2].outstanding = 1

(* What the code does for C23: the second coroutine is not started until *)
(* the await of the first has returned, so a call never has more than one *)
(* request outstanding.                                                   *)
C23_OneAtATime ==
    /\ Cardinality(Awaiting) <= 1
    /\ \A i \in DOMAIN calls :
          /\ calls[i].outstanding = 0
          /\ \A j \in 1..(i - 1) : calls[j].state = "returned"

Live == {i \in DOMAIN http : http[i] = "open"}

(* C27: for any sequence of client-property accesses and close() calls    *)
(* at most one underlying HTTP client is live at a time: the first access *)
(* after construction or after a close creates one, later accesses return *)
(* that same instance, close() closes it and resets the handle to none,   *)
(* and a close() with no live client changes nothing.                     *)
C27_AtMostOneLive ==
    /\ [](/\ Cardinality(Live) <= 1
          /\ handle = 0 => Live = {}
          /\ handle # 0 => Live = {handle})
    /\ [][/\ (handle = 0 /\ handle' # 0) =>
                /\ handle' = Len(http) + 1
                /\ http' = Append(http, "open")
          /\ (handle # 0 /\ handle' # 0) =>
                /\ handle' = handle
                /\ http' = http
          /\ (handle # 0 /\ handle' = 0) =>
                http' = [http EXCEPT ![handle] = "closed"]
          /\ (handle = 0 /\ handle' = 0) => http' = http]_vars

C27_Witness ==
    /\ http = <<"closed", "open">>
    /\ handle = 2
    /\ Len(calls) = 2
    /\ calls[1].on = 2
    /\ calls[2].on = 2

(* An argument that is given: neither None nor the empty string. *)
Given(x) == x \notin {<<>>, <<"">>}

ValidNotesAction ==
    \/ args.action = "get"
    \/ args.action = "create" /\ Given(args.message)
    \/ args.action = "update" /\ Given(args.note_id) /\ Given(args.message)
    \/ args.action = "delete" /\ Given(args.note_id)

NotesMethodNames ==
    [get    |-> "get_session_notes",   create |-> "create_session_note",
     update |-> "update_session_note", delete |-> "delete_session_note"]

(* C28: manage_session_notes performs exactly one HTTP request for a      *)
(* valid action (get; create with a message; update with note_id and      *)
(* message; delete with note_id), and for any other action or a missing   *)
(* required parameter it performs no HTTP request and returns the         *)
(* 'Invalid action or missing parameters' string.                         *)
C28_OneRequestOrInvalid ==
    tool = "manage_session_notes" =>
        IF ValidNotesAction
        THEN /\ Len(calls) <= 1
             /\ returned # InvalidAction
             /\ tpc \in {"returned", "raised"} =>
                   /\ Len(calls) = 1
                   /\ calls[1].sent = 1
                   /\ calls[1].method = NotesMethodNames[args.action]
        ELSE /\ calls = <<>>
             /\ raised = NoException
             /\ tpc \in {"returned", "raised"} =>
                   tpc = "returned" /\ returned = InvalidAction

C28_Witness ==
    /\ tool = "manage_session_notes"
    /\ args = [action |-> "update", message |-> <<>>, note_id |-> <<"n1">>]
    /\ tpc = "returned"
    /\ calls = <<>>
    /\ returned = InvalidAction

(* C26: search_user_sessions (v2 tools) returns the formatted user       *)
(* session analysis, not an error string, for every successful search     *)
(* response, including a response that contains zero sessions.            *)
C26_ReportForEverySuccess ==
    (tool = "search_user_sessions" /\ tpc = "returned" /\ fetched = 1) =>
        /\ raised = NoException
        /\ Head(returned) = "User"

(* What the code does for C26: the report is returned for a response with *)
(* at least one session; for a response with none the summary is the      *)
(* sentinel {"error": ...}, patterns['avg_duration'] raises KeyError and  *)
(* the tool returns "Error searching user sessions: 'avg_duration'".      *)
C26_ErrorForNoSessions ==
    (tool = "search_user_sessions" /\ tpc = "returned" /\ fetched = 1) =>
        IF sessions = <<>>
        THEN returned = SearchError \o <<"'avg_duration'">>
        ELSE raised = NoException /\ Head(returned) = "User"

-----------------------------------------------------------------------------
(* detect_problem_patterns *)

Detected == problems # Nothing

(* The positions in the event list of the events of these types. *)
Positions(types) ==
    {i \in 1..Len(events) : /\ "type" \in DOMAIN events[i]
                            /\ events[i]["type"] \in types}

(* The k-th click of the session, counting from 1. *)
ClickAt(k) ==
    events[CHOOSE i \in Positions({"click"}) :
               Cardinality({j \in Positions({"click"}) : j <= i}) = k]

NumClicks == Cardinality(Positions({"click"}))

(* The timestamp as the detection reads it: 0 when the event has none. *)
TimeOf(e) == IF "timestamp" \in DOMAIN e THEN e["timestamp"] ELSE 0

(* C29: detect_problem_patterns reports no rage clicks when the session   *)
(* has fewer than 3 click events; every reported rage-click incident has  *)
(* click_count 3 or 4 and is reported only when the last click of its     *)
(* window (the click it starts at and the up to three clicks after it)    *)
(* occurred less than 3000 ms after the window's first click.             *)
C29_RageClicks ==
    Detected =>
        /\ NumClicks < 3 => problems.rage_clicks = <<>>
        /\ \A r \in 1..Len(problems.rage_clicks) :
              LET incident == problems.rage_clicks[r]
              IN  /\ incident.click_count \in {3, 4}
                  /\ \E k \in 1..(NumClicks - 2) :
                        LET last == IF k + 3 <= NumClicks THEN k + 3
                                    ELSE NumClicks
                        IN  /\ incident.click_count = last - k + 1
                            /\ incident.element = GetOrNone(ClickAt(k), "element")
                            /\ incident.timestamp = GetOrNone(ClickAt(k), "timestamp")
                            /\ TimeOf(ClickAt(last)) - TimeOf(ClickAt(k)) < 3000

C29_Witness ==
    /\ Detected
    /\ Len(events) = 4
    /\ \A i \in 1..4 : events[i] = [type |-> "click", element |-> "btn",
                                    timestamp |-> IF i = 1 THEN 0 ELSE 2999]
    /\ Len(problems.rage_clicks) = 2
    /\ problems.rage_clicks[1].click_count = 4
    /\ problems.rage_clicks[2].click_count = 3
    /\ problems.rage_clicks[2].timestamp = <<2999>>

(* The position of the first interaction with the field. *)
FirstInteraction(field) ==
    CHOOSE i \in Positions({"input", "focus", "blur"}) :
        /\ GetOrNone(events[i], "element") = <<field>>
        /\ \A j \in Positions({"input", "focus", "blur"}) :
              GetOrNone(events[j], "element") = <<field>> => i <= j

(* The fields the session interacted with: the elements, neither None nor *)
(* empty, of its input, focus and blur events.                            *)
InteractedFields ==
    { events[i]["element"] :
        i \in {j \in Positions({"input", "focus", "blur"}) :
                  /\ "element" \in DOMAIN events[j]
                  /\ events[j]["element"] # ""} }

(* C30: detect_problem_patterns reports form abandonment if and only if   *)
(* the session has at least one input/focus/blur event with an element    *)
(* and no submit event at all; the reported list is then exactly the      *)
(* distinct interacted fields in first-interaction order, and it is empty *)
(* whenever any submit event exists.                                      *)
C30_FormAbandonment ==
    Detected =>
        LET reported == problems.form_abandonment
        IN  /\ reported # <<>> <=>
                  (InteractedFields # {} /\ Positions({"submit"}) = {})
            /\ Positions({"submit"}) # {} => reported = <<>>
            /\ reported # <<>> =>
                  /\ {reported[i] : i \in 1..Len(reported)} = InteractedFields
                  /\ Len(reported) = Cardinality(InteractedFields)
                  /\ \A i \in 1..Len(reported) : \A j \in 1..Len(reported) :
                        i < j => FirstInteraction(reported[i])
                                 < FirstInteraction(reported[j])

C30_Witness ==
    /\ Detected
    /\ events = <<[type |-> "blur", element |-> "name"],
                  [type |-> "focus", element |-> "email"],
                  [type |-> "blur", element |-> "name"]>>
    /\ problems.form_abandonment = <<"name", "email">>

====
